---- MODULE Spec2Model ----
(***************************************************************************)
(* Model of the labu conformance harness: the Controller (suites, tests,   *)
(* nodes, networks, result accumulator) driven by concurrent callers, the   *)
(* container runtime adapter it calls, the result writer, the run driver    *)
(* sim.Run, and the simulator SDK labusim.                                  *)
(*                                                                          *)
(* Spec        any interleaving of the suite, test and node calls of the    *)
(*             Controller by Threads (each critical section is entered by  *)
(*             a Lock step and executed by a body step that releases the   *)
(*             mutex; adapter calls are steps of their own).               *)
(* ResultSpec  suites and tests with SaveResults, SetSimLog and            *)
(*             SetClientVersions.                                          *)
(* NetSpec     CreateNetwork and RemoveNetwork with the adapter's          *)
(*             networks.                                                   *)
(* AdapterSpec suites, tests, nodes and networks together, for the order   *)
(*             of mutex and adapter calls.                                 *)
(* RunSpec     the Controller under the run driver: the driver walks       *)
(*             through sim.Run, and the request threads serve the          *)
(*             simulator only while the simulator container runs.          *)
(* FlushSpec   the suite and test handlers of the HTTP server while the    *)
(*             simulator runs, with the flush that follows EndTest.        *)
(* ApiSpec     the suite, test and node handlers of the HTTP server with   *)
(*             the status each of them answers.                            *)
(* EnvSpec     LaunchNode on one test, with the launch configs of callers. *)
(* SdkSpec     the simulator SDK: New and RunSuite on one suite, with the   *)
(*             server's answers chosen freely.                             *)
(* VectorSpec  the SDK's decoration of one launch spec with vector files.  *)
(* ExecSpec    one Exec of the SDK on a client: the request, the server's  *)
(*             handler with the adapter's exec, and the return values.     *)
(* InfoSpec    one suite with one test and its node: LaunchNode, NodeInfo, *)
(*             RemoveNode, EndTest and EndSuite.                           *)
(* NodeSpec    the tests of one suite and the nodes launched in them.      *)
(* LockSpec    the calls on one test by goroutines scheduled fairly.       *)
(* FileSpec    LaunchNode on one test with the files of the requests, the  *)
(*             node directories and the mounts of the containers.          *)
(***************************************************************************)
EXTENDS Integers, Sequences, FiniteSets, TLC

(* ------------------------------ bounds --------------------------------- *)
NumThreads == 2
MaxSuites == 2
MaxTests == 2
MaxContainers == 1
MaxClock == 2
MaxCalls == 2
MaxFlushedTests == 1
MaxServedSuites == 1
MaxSdkTests == 2
MaxSdkClientTests == 2
MaxExitCode == 2
MaxNodes == 2

(* ------------------------------ inputs --------------------------------- *)
Threads == 1..NumThreads
SuiteIds == 1..MaxSuites
TestIds == 1..MaxTests
ContainerIds == 1..MaxNodes
SuiteNames == {"rpc"}
TestNames == {"a"}
Descriptions == {"desc"}
Verdicts == {[pass |-> TRUE, details |-> ""], [pass |-> FALSE, details |-> "boom"]}
KnownClients == {"c1"}
ClientInputs == KnownClients \cup {"zz"}
RunClients == <<"c1", "c2">>
ClientImages == {[c \in {} |-> ""], [c \in {"c1"} |-> "img-c1"]}
NetNames == {"n1", "n2"}
OverlayNet == "lab-net"
SimContainer == 0
SimLogName == "simulator-0.log"
TruncatedFile == [truncated |-> TRUE]

VARIABLES
    mu, suiteSeq, testSeq, suites, tests, clients, networks, results,
    imageOverrides,
    pc, crashed, run,
    containers, nextContainer, dockerNets, now, disk, fs,
    suiteIdsRet, testIdsRet, testArgs, endTestOk, endTestDone, lateNodes, removeCalls,
    netCalls, netCreates,
    sdk, wire

dataVars == <<suiteSeq, testSeq, suites, tests, clients, networks, results, imageOverrides>>
ctrlVars == <<mu, dataVars>>
envVars == <<containers, nextContainer, dockerNets, now, disk, fs>>
ghostVars == <<suiteIdsRet, testIdsRet, testArgs, endTestOk, endTestDone, lateNodes, removeCalls, netCalls, netCreates>>
sdkVars == <<sdk, wire>>
vars == <<ctrlVars, pc, crashed, run, envVars, ghostVars, sdkVars>>

(* ------------------------------ helpers -------------------------------- *)
EmptyMap == [x \in {} |-> 0]

Put(m, k, v) == [x \in (DOMAIN m) \cup {k} |-> IF x = k THEN v ELSE m[x]]

Delete(m, k) == [x \in (DOMAIN m) \ {k} |-> m[x]]

Min(a, b) == IF a < b THEN a ELSE b

RECURSIVE Itoa(_)
Itoa(n) == IF n < 10 THEN <<n>> ELSE Append(Itoa(n \div 10), n % 10)

(* results.NowRFC3339 reads the wall clock with nanosecond precision: every read  *)
(* returns a later instant, until the model's clock saturates at MaxClock.        *)
NowRFC3339 == {Min(now + 1, MaxClock)}

LogFileOf(client, cid) == <<"clients", client, "client", cid, "log">>

IPOf(cid) == 100 + cid

(* NodeInfo's answer for an id it does not find, line 412: the map {"id": id}. *)
Stub(containerID) == [id |-> containerID]

NoInfo == Stub(0)

(* A ClientLaunchConfig without environment and networks, in a request without  *)
(* files.                                                                       *)
NoConfig == [Environment |-> EmptyMap, Networks |-> <<>>, Files |-> EmptyMap]

Idle == [op |-> "idle", err |-> "", s |-> 0, t |-> 0, pass |-> FALSE, details |-> "", client |-> "",
         img |-> "", cid |-> 0, ip |-> 0, inst |-> 0, n |-> "",
         snap |-> {}, must |-> {}, visited |-> {}, started |-> FALSE, overtaken |-> FALSE, known |-> FALSE,
         h |-> "", status |-> 0, info |-> NoInfo, cfg |-> NoConfig, env |-> EmptyMap]

At(th, op) == pc[th].op = op /\ ~crashed

Goto(th, rec) == pc' = [pc EXCEPT ![th] = rec]

Bump(f, k) == [f EXCEPT ![k] = Min(f[k] + 1, MaxCalls)]

(* ------------------------------- New ----------------------------------- *)
New ==
    /\ mu = 0
    /\ suiteSeq = 0
    /\ testSeq = 0
    /\ suites = EmptyMap
    /\ tests = EmptyMap
    /\ clients = KnownClients
    /\ networks = {}
    /\ results = EmptyMap
    /\ imageOverrides = EmptyMap

EnvInit ==
    /\ containers = {}
    /\ nextContainer = 0
    /\ dockerNets = {}
    /\ now = 0
    /\ disk = EmptyMap
    /\ fs = [dirs |-> EmptyMap, mounts |-> EmptyMap]
    /\ crashed = FALSE

GhostInit ==
    /\ suiteIdsRet = <<>>
    /\ testIdsRet = <<>>
    /\ testArgs = EmptyMap
    /\ endTestOk = {}
    /\ endTestDone = {}
    /\ lateNodes = {}
    /\ removeCalls = [c \in ContainerIds |-> 0]
    /\ netCalls = [n \in NetNames |-> 0]
    /\ netCreates = [n \in NetNames |-> 0]

(* --------------------------- sync.Mutex -------------------------------- *)
Lock(th, from, to) ==
    /\ At(th, from)
    /\ mu = 0
    /\ mu' = th
    /\ Goto(th, [pc[th] EXCEPT !.op = to, !.err = ""])
    /\ UNCHANGED <<dataVars, crashed, run, sdkVars, envVars, ghostVars>>

Holding(th, op) == At(th, op) /\ mu = th

(* --------------------------- control server ---------------------------- *)
(* Calls reach the Controller through the control server once sim.Run has      *)
(* started; before that they are direct calls of the Controller's methods.     *)
Served == run.op # "start"

(* The handlers' status for the error of the Controller call they made:        *)
(* handleSuiteSub and handleTest answer an error of EndSuite, CreateTest and   *)
(* EndTest with StatusNotFound, every other handler with                       *)
(* StatusInternalServerError.                                                  *)
StatusOf(handler, err) ==
    IF err = "" THEN 200
    ELSE IF handler \in {"EndSuite", "CreateTest", "EndTest"} THEN 404
    ELSE 500

(* Where a call of `handler` that returns err leaves the goroutine: back in    *)
(* its caller, or in the handler about to write the response.                  *)
Returned(handler, err) ==
    IF Served
    THEN [Idle EXCEPT !.op = "respond", !.h = handler, !.err = err, !.status = StatusOf(handler, err)]
    ELSE Idle

(* writeJSON / writeError: the response is sent and the request is over. *)
Respond(th) ==
    /\ At(th, "respond")
    /\ Goto(th, Idle)
    /\ UNCHANGED <<ctrlVars, crashed, run, sdkVars, envVars, ghostVars>>

ReturnConsumingTestId(th, handler, err) ==
    /\ mu' = 0
    /\ Goto(th, Returned(handler, err))
    /\ testSeq' = Min(testSeq + 1, MaxTests)
    /\ UNCHANGED <<suiteSeq, suites, tests, clients, networks, results, imageOverrides>>
    /\ UNCHANGED <<crashed, run, sdkVars, envVars, ghostVars>>

(* A return that leaves everything but the caller and the mutex as it was. *)
ReturnUnchanged(th, handler, err) ==
    /\ mu' = 0
    /\ Goto(th, Returned(handler, err))
    /\ UNCHANGED <<dataVars, crashed, run, sdkVars, envVars, ghostVars>>

(* --------------------------- CreateSuite ------------------------------- *)
NewSuiteResult(id, name, desc) ==
    [ID |-> id, Name |-> name, Description |-> desc, ClientVersions |-> EmptyMap,
     SimLog |-> "", TestCases |-> EmptyMap]

NextSuiteIdReused == Cardinality(DOMAIN suites) + 1

(* c.suiteSeq++ : the id is the incremented counter, never derived from the live map. *)
NextSuiteId == suiteSeq + 1

CreateSuiteLock(th) ==
    /\ suiteSeq < MaxSuites
    /\ Lock(th, "idle", "CreateSuite")

CreateSuite(th) ==
    /\ Holding(th, "CreateSuite")
    /\ \E name \in SuiteNames, desc \in Descriptions :
        LET id == NextSuiteId IN
        /\ suiteSeq' = id
        /\ suites' = Put(suites, id, [ID |-> id, Name |-> name, Description |-> desc, Tests |-> {}])
        /\ results' = Put(results, id, NewSuiteResult(id, name, desc))
        /\ suiteIdsRet' = Append(suiteIdsRet, id)
    /\ mu' = 0
    /\ Goto(th, Returned("CreateSuite", ""))
    /\ UNCHANGED <<testSeq, tests, clients, networks, imageOverrides>>
    /\ UNCHANGED <<crashed, run, sdkVars, envVars>>
    /\ UNCHANGED <<testIdsRet, testArgs, endTestOk, endTestDone, lateNodes, removeCalls, netCalls, netCreates>>

(* ----------------------------- EndSuite -------------------------------- *)
ResultsDroppedWithSuite(id) == Delete(results, id)

(* EndSuite deletes from c.suites only; c.results is not touched. *)
ResultsAfterEndSuite(id) == results

EndSuiteLock(th) == Lock(th, "idle", "EndSuite")

EndSuite(th) ==
    /\ Holding(th, "EndSuite")
    /\ \E id \in SuiteIds :
        \/ /\ id \notin DOMAIN suites
           /\ ReturnUnchanged(th, "EndSuite", "suite not found")
        \/ /\ id \in DOMAIN suites
           /\ suites' = Delete(suites, id)
           /\ results' = ResultsAfterEndSuite(id)
           /\ mu' = 0
           /\ Goto(th, Returned("EndSuite", ""))
           /\ UNCHANGED <<suiteSeq, testSeq, tests, clients, networks, imageOverrides>>
           /\ UNCHANGED <<crashed, run, sdkVars, envVars, ghostVars>>

(* ---------------------------- CreateTest ------------------------------- *)
NewTest(id, name, desc, start) ==
    [ID |-> id, Name |-> name, Description |-> desc, Start |-> start, End |-> 0,
     Pass |-> FALSE, Details |-> "", Nodes |-> EmptyMap]

NextTestIdPerSuite(suiteID) == Cardinality(suites[suiteID].Tests) + 1

(* c.testSeq++ : one counter for the whole Controller, whatever the suite. *)
NextTestId(suiteID) == testSeq + 1

CreateTestLock(th) ==
    /\ testSeq < MaxTests
    /\ Lock(th, "idle", "CreateTest")

CreateTest(th) ==
    /\ Holding(th, "CreateTest")
    /\ \E suiteID \in SuiteIds, name \in TestNames, desc \in Descriptions :
        \/ /\ suiteID \notin DOMAIN suites
           /\ ReturnUnchanged(th, "CreateTest", "suite not found")
        \/ /\ suiteID \in DOMAIN suites
           /\ \E start \in NowRFC3339 :
                LET id == NextTestId(suiteID) IN
                /\ testSeq' = id
                /\ now' = start
                /\ tests' = Put(tests, id, NewTest(id, name, desc, start))
                /\ suites' = [suites EXCEPT ![suiteID].Tests = @ \cup {id}]
                /\ testIdsRet' = Append(testIdsRet, id)
                /\ testArgs' = Put(testArgs, id, [s |-> suiteID, name |-> name, desc |-> desc, start |-> start])
           /\ mu' = 0
           /\ Goto(th, Returned("CreateTest", ""))
           /\ UNCHANGED <<suiteSeq, clients, networks, results, imageOverrides>>
           /\ UNCHANGED <<crashed, run, sdkVars, containers, nextContainer, dockerNets, disk, fs>>
           /\ UNCHANGED <<suiteIdsRet, endTestOk, endTestDone, lateNodes, removeCalls, netCalls, netCreates>>

(* ----------------------------- EndTest --------------------------------- *)
ClientInfoOf(node) ==
    [IP |-> node.IP, Name |-> node.ClientName, InstantiatedAt |-> node.InstantiatedAt,
     LogFile |-> node.LogFile]

CaseResultWithoutDetails(t) ==
    [Name |-> t.Name, Description |-> t.Description, Start |-> t.Start, End |-> t.End,
     SummaryResult |-> [Pass |-> t.Pass, Details |-> ""],
     ClientInfo |-> [id \in DOMAIN t.Nodes |-> ClientInfoOf(t.Nodes[id])]]

CaseResultOf(t) ==
    [Name |-> t.Name, Description |-> t.Description, Start |-> t.Start, End |-> t.End,
     SummaryResult |-> [Pass |-> t.Pass, Details |-> t.Details],
     ClientInfo |-> [id \in DOMAIN t.Nodes |-> ClientInfoOf(t.Nodes[id])]]

HasTestInAnySuite(suiteID, testID) == testID \in DOMAIN tests

(* s.Tests[testID] : the lookup is in the Tests map of the addressed suite. *)
HasTest(suiteID, testID) == testID \in suites[suiteID].Tests

(* Bookkeeping for the properties: goroutine o is between the validation and the   *)
(* registration of a LaunchNode on test t.                                          *)
InLaunchNode(o, t) ==
    /\ pc[o].op \in {"LaunchNode:build", "LaunchNode:run", "LaunchNode:relock", "LaunchNode:register"}
    /\ pc[o].t = t

EndTestLock(th) == Lock(th, "idle", "EndTest")

EndTest(th) ==
    /\ Holding(th, "EndTest")
    /\ \E suiteID \in SuiteIds, testID \in TestIds, req \in Verdicts :
        \/ /\ suiteID \notin DOMAIN suites
           /\ ReturnUnchanged(th, "EndTest", "suite not found")
        \/ /\ suiteID \in DOMAIN suites
           /\ ~HasTest(suiteID, testID)
           /\ ReturnUnchanged(th, "EndTest", "test not found")
        \/ /\ suiteID \in DOMAIN suites
           /\ HasTest(suiteID, testID)
           /\ \E end \in NowRFC3339 :
                LET t == [tests[testID] EXCEPT !.Pass = req.pass, !.Details = req.details, !.End = end] IN
                /\ now' = end
                /\ tests' = [tests EXCEPT ![testID] = t]
                /\ results' = [results EXCEPT ![suiteID].TestCases = Put(@, Itoa(testID), CaseResultOf(t))]
                /\ pc' = [o \in DOMAIN pc |->
                            IF o = th
                            THEN [Idle EXCEPT !.op = "EndTest:remove", !.s = suiteID, !.t = testID,
                                              !.pass = req.pass, !.details = req.details,
                                              !.snap = DOMAIN t.Nodes]
                            ELSE IF InLaunchNode(o, testID)
                                 THEN [pc[o] EXCEPT !.overtaken = TRUE]
                                 ELSE pc[o]]
           /\ endTestOk' = endTestOk \cup {<<suiteID, testID>>}
           /\ UNCHANGED endTestDone
           /\ mu' = 0
           /\ UNCHANGED <<suiteSeq, testSeq, suites, clients, networks, imageOverrides>>
           /\ UNCHANGED <<crashed, run, sdkVars, containers, nextContainer, dockerNets, disk, fs>>
           /\ UNCHANGED <<suiteIdsRet, testIdsRet, testArgs, lateNodes, removeCalls, netCalls, netCreates>>

(* docker.Remove: `docker rm -f`; it may fail and leave the container. *)
DockerRemove(cid) ==
    /\ removeCalls' = Bump(removeCalls, cid)
    /\ \/ containers' = containers \ {cid}
       \/ containers' = containers

(* The loop `for _, node := range t.Nodes` runs without the mutex on the live  *)
(* map: the keys present when it starts are produced, keys added meanwhile     *)
(* may or may not be.                                                          *)
RangeSkipped(th) == {}

RangeMust(th) == IF pc[th].started THEN pc[th].must ELSE DOMAIN tests[pc[th].t].Nodes

EndTestRemove(th) ==
    /\ At(th, "EndTest:remove")
    /\ \E id \in (DOMAIN tests[pc[th].t].Nodes) \ pc[th].visited :
        /\ DockerRemove(tests[pc[th].t].Nodes[id].ContainerID)
        /\ Goto(th, [pc[th] EXCEPT !.started = TRUE, !.must = RangeMust(th),
                                   !.visited = @ \cup {id}])
    /\ UNCHANGED <<ctrlVars, crashed, run, sdkVars, nextContainer, dockerNets, now, disk, fs>>
    /\ UNCHANGED <<suiteIdsRet, testIdsRet, testArgs, endTestOk, endTestDone, lateNodes, netCalls, netCreates>>

AfterEndTestNoFlush(th) == Returned("EndTest", "")

(* handleTest: after `s.ctrl.EndTest` returned nil the handler goes on to        *)
(* `s.ctrl.SaveResults`; a direct caller of the Controller is simply back.       *)
AfterEndTest(th) ==
    IF Served
    THEN [Idle EXCEPT !.op = "flush", !.h = "EndTest", !.s = pc[th].s, !.t = pc[th].t]
    ELSE Idle

(* Line 239: EndTest returns nil. *)
EndTestReturn(th) ==
    /\ At(th, "EndTest:remove")
    /\ RangeMust(th) \subseteq pc[th].visited
    /\ Goto(th, AfterEndTest(th))
    /\ endTestDone' = endTestDone \cup {pc[th].t}
    /\ UNCHANGED <<ctrlVars, crashed, run, sdkVars, envVars>>
    /\ UNCHANGED <<suiteIdsRet, testIdsRet, testArgs, endTestOk, lateNodes, removeCalls, netCalls, netCreates>>

(* ---------------------------- LaunchNode ------------------------------ *)
LaunchNodeLock(th) ==
    /\ nextContainer < MaxContainers
    /\ Lock(th, "idle", "LaunchNode")

MutexKeptAfterValidation(th) == th

(* Line 260: c.mu.Unlock() once the image override is copied out, before Build. *)
MutexAfterValidation(th) == 0

(* Lines 243-260: validation under the mutex, copying out the image override;   *)
(* cfg is one of configs.                                                       *)
LaunchNodeWith(th, configs) ==
    /\ Holding(th, "LaunchNode")
    /\ \E suiteID \in SuiteIds, testID \in TestIds, client \in ClientInputs, cfg \in configs :
        \/ /\ suiteID \notin DOMAIN suites
           /\ ReturnUnchanged(th, "LaunchNode", "suite not found")
        \/ /\ suiteID \in DOMAIN suites
           /\ ~HasTest(suiteID, testID)
           /\ ReturnUnchanged(th, "LaunchNode", "test not found")
        \/ /\ suiteID \in DOMAIN suites
           /\ HasTest(suiteID, testID)
           /\ client \notin clients
           /\ ReturnUnchanged(th, "LaunchNode", "unknown client")
        \/ /\ suiteID \in DOMAIN suites
           /\ HasTest(suiteID, testID)
           /\ client \in clients
           /\ LET imageOverride == IF client \in DOMAIN imageOverrides THEN imageOverrides[client] ELSE "" IN
              Goto(th, [Idle EXCEPT !.op = IF imageOverride = "" THEN "LaunchNode:build" ELSE "LaunchNode:run",
                                    !.s = suiteID, !.t = testID, !.client = client,
                                    !.img = imageOverride, !.cfg = cfg])
           /\ mu' = MutexAfterValidation(th)
           /\ UNCHANGED <<dataVars, crashed, run, sdkVars, envVars, ghostVars>>

(* The configs of callers: any of the variables LaunchNode looks at and one it  *)
(* does not, set or left out, LABU_STATE_DIR set to the empty string; and no    *)
(* network, one, or two.                                                        *)
CallerValue(k) ==
    CASE k = "LABU_NETWORK" -> "mainnet"
      [] k = "LABU_STATE_DIR" -> ""
      [] k = "LABU_FILES_DIR" -> "/elsewhere"
      [] OTHER -> "1"

LaunchConfigs ==
    {[Environment |-> [k \in ks |-> CallerValue(k)], Networks |-> nets, Files |-> EmptyMap] :
        ks \in SUBSET {"LABU_NETWORK", "LABU_STATE_DIR", "LABU_FILES_DIR", "LABU_VERBOSE"},
        nets \in {<<>>, <<"n1">>, <<"n2", "n1">>}}

(* The files of a request, name and content: none, a genesis file, another     *)
(* genesis file, a key file.                                                    *)
UploadedFiles ==
    {EmptyMap, [n \in {"genesis.json"} |-> "a"], [n \in {"genesis.json"} |-> "b"],
     [n \in {"keys.json"} |-> "k"]}

FileConfigs == {[NoConfig EXCEPT !.Files = f] : f \in UploadedFiles}

(* LaunchNode with a config that sets no variable and names no network. *)
LaunchNode(th) == LaunchNodeWith(th, {NoConfig})

AlwaysDevnet(nets) == "devnet"

(* Lines 291-295: the network a node is told when the caller named none in      *)
(* the environment.                                                             *)
DefaultNetwork(nets) == IF Len(nets) > 0 THEN nets[1] ELSE "devnet"

(* Lines 283-297: the environment of the client container. *)
LaunchEnv(cfg) ==
    LET copied == cfg.Environment
        files == Put(copied, "LABU_FILES_DIR", "/labu-files")
        state == IF "LABU_STATE_DIR" \in DOMAIN files THEN files ELSE Put(files, "LABU_STATE_DIR", "/state")
    IN  IF "LABU_NETWORK" \in DOMAIN state THEN state
        ELSE Put(state, "LABU_NETWORK", DefaultNetwork(cfg.Networks))

(* Lines 262-269: docker.Build of the client image; an error is returned. *)
LaunchNodeBuild(th) ==
    /\ At(th, "LaunchNode:build")
    /\ \/ Goto(th, Returned("LaunchNode", "build failed"))
       \/ Goto(th, [pc[th] EXCEPT !.op = "LaunchNode:run", !.img = "labu-client-" \o pc[th].client])
    /\ UNCHANGED <<ctrlVars, crashed, run, sdkVars, envVars, ghostVars>>

(* Line 272: the files directory of a node is named after suite and test. *)
nodeDir(suiteID, testID) == <<suiteID, testID>>

(* The files in directory dir; a directory is what it holds, so one that was    *)
(* never written holds nothing.                                                 *)
DirOf(dirs, dir) == IF dir \in DOMAIN dirs THEN dirs[dir] ELSE EmptyMap

(* Lines 276-281 and copyFile: the files named in `names` copied to dir, a file *)
(* of the same name being overwritten.                                          *)
Copied(dirs, dir, files, names) ==
    IF names = {} THEN dirs
    ELSE Put(dirs, dir, [n \in DOMAIN DirOf(dirs, dir) \cup names |->
                            IF n \in names THEN files[n] ELSE DirOf(dirs, dir)[n]])

(* Lines 271-321: the files of the request are copied into the node directory,  *)
(* where MkdirAll or a copy may fail and end the call with some files copied;   *)
(* the environment is built and passed with the directory as the mount of       *)
(* /labu-files to docker.Run, which returns a fresh container id or an error;   *)
(* docker.InspectIP follows and its error is dropped, leaving the ip empty.     *)
LaunchNodeRunUpTo(th, limit) ==
    /\ At(th, "LaunchNode:run")
    /\ LET files == pc[th].cfg.Files
           dir == nodeDir(pc[th].s, pc[th].t)
       IN
       \/ /\ \E names \in SUBSET DOMAIN files :
                fs' = [fs EXCEPT !.dirs = Copied(fs.dirs, dir, files, names)]
          /\ Goto(th, Returned("LaunchNode", "copy failed"))
          /\ UNCHANGED <<containers, nextContainer, now>>
       \/ /\ fs' = [fs EXCEPT !.dirs = Copied(fs.dirs, dir, files, DOMAIN files)]
          /\ Goto(th, Returned("LaunchNode", "run failed"))
          /\ UNCHANGED <<containers, nextContainer, now>>
       \/ /\ nextContainer < limit
          /\ LET containerID == nextContainer + 1 IN
             /\ nextContainer' = containerID
             /\ containers' = containers \cup {containerID}
             /\ fs' = [dirs |-> Copied(fs.dirs, dir, files, DOMAIN files),
                       mounts |-> Put(fs.mounts, containerID, [dir |-> dir, files |-> files])]
             /\ \E ip \in {0, IPOf(containerID)}, inst \in NowRFC3339 :
                  /\ now' = inst
                  /\ Goto(th, [pc[th] EXCEPT !.op = "LaunchNode:relock", !.cid = containerID,
                                             !.ip = ip, !.inst = inst, !.env = LaunchEnv(pc[th].cfg)])
    /\ UNCHANGED <<ctrlVars, crashed, run, sdkVars, dockerNets, disk, ghostVars>>

LaunchNodeRun(th) == LaunchNodeRunUpTo(th, MaxContainers)

LaunchNodeRelock(th) == Lock(th, "LaunchNode:relock", "LaunchNode:register")

NodeOf(p) ==
    [ID |-> p.cid, ClientName |-> p.client, ContainerID |-> p.cid, IP |-> p.ip,
     InstantiatedAt |-> p.inst, LogFile |-> LogFileOf(p.client, p.cid)]

WithNodeInEveryTest(ts, t, node) ==
    [x \in DOMAIN ts |-> [ts[x] EXCEPT !.Nodes = Put(@, node.ID, node)]]

(* Line 324: t.Nodes[node.ID] = node, t being the Test found at line 249. *)
WithNode(ts, t, node) == [ts EXCEPT ![t].Nodes = Put(@, node.ID, node)]

(* Another goroutine is inside `range t.Nodes` of the same Test without the mutex. *)
RangeInProgress(th, t) ==
    \E o \in DOMAIN pc : o # th /\ pc[o].op = "EndTest:remove" /\ pc[o].t = t /\ pc[o].started

(* Lines 323-327: the write to t.Nodes under the mutex. A write during another  *)
(* goroutine's iteration of the same map is a data race: the runtime may abort   *)
(* the process ("concurrent map iteration and map write").                       *)
LaunchNodeRegister(th) ==
    /\ Holding(th, "LaunchNode:register")
    /\ \/ /\ tests' = WithNode(tests, pc[th].t, NodeOf(pc[th]))
          /\ lateNodes' = IF pc[th].overtaken THEN lateNodes \cup {pc[th].cid} ELSE lateNodes
          /\ mu' = 0
          /\ Goto(th, Returned("LaunchNode", ""))
          /\ UNCHANGED <<crashed, run, sdkVars>>
       \/ /\ RangeInProgress(th, pc[th].t)
          /\ crashed' = TRUE
          /\ UNCHANGED <<run, sdkVars>>
          /\ UNCHANGED <<tests, mu, pc, lateNodes>>
    /\ UNCHANGED <<suiteSeq, testSeq, suites, clients, networks, results, imageOverrides>>
    /\ UNCHANGED <<envVars, suiteIdsRet, testIdsRet, testArgs, endTestOk, endTestDone, removeCalls, netCalls, netCreates>>

(* ---------------------------- RemoveNode ------------------------------- *)
(* Container ids are opaque: a caller knows only the ids LaunchNode returned. *)
ReturnedNodeIds == UNION {DOMAIN tests[t].Nodes : t \in DOMAIN tests}

TestsWithoutNode(containerID) ==
    [t \in DOMAIN tests |->
        [tests[t] EXCEPT !.Nodes = [id \in DOMAIN @ \ {containerID} |-> @[id]]]]

(* Lines 395-397: no map of the Controller is written. *)
TestsAfterRemoveNode(containerID) == tests

RemoveNode(th) ==
    /\ At(th, "idle")
    /\ \E containerID \in ReturnedNodeIds :
        /\ DockerRemove(containerID)
        /\ tests' = TestsAfterRemoveNode(containerID)
    /\ UNCHANGED <<mu, suiteSeq, testSeq, suites, clients, networks, results, imageOverrides>>
    /\ UNCHANGED <<pc, crashed, run, sdkVars, nextContainer, dockerNets, now, disk, fs>>
    /\ UNCHANGED <<suiteIdsRet, testIdsRet, testArgs, endTestOk, endTestDone, lateNodes, netCalls, netCreates>>

(* ----------------------------- NodeInfo -------------------------------- *)
NodeInfoLock(th) == Lock(th, "idle", "NodeInfo")

ScannedTestsOfAnySuite == DOMAIN tests

(* Lines 402-403: the tests the two loops visit, those of the suites in          *)
(* c.suites.                                                                    *)
ScannedTests == UNION {suites[s].Tests : s \in DOMAIN suites}

(* Lines 404-409: the map returned for a node that is found. *)
InfoOf(node) == [id |-> node.ID, name |-> node.ClientName]

(* Lines 402-412: the answers NodeInfo can give for containerID. *)
NodeInfoOf(containerID) ==
    LET found == {t \in ScannedTests : containerID \in DOMAIN tests[t].Nodes}
    IN  IF found = {} THEN {Stub(containerID)}
        ELSE {InfoOf(tests[t].Nodes[containerID]) : t \in found}

(* Lines 399-413, under the mutex; the error is always nil. *)
NodeInfo(th) ==
    /\ Holding(th, "NodeInfo")
    /\ \E containerID \in ContainerIds :
        \E info \in NodeInfoOf(containerID) :
        Goto(th, [Idle EXCEPT !.op = "NodeInfo:return", !.cid = containerID, !.info = info])
    /\ mu' = 0
    /\ UNCHANGED <<dataVars, crashed, run, sdkVars, envVars, ghostVars>>

(* The caller has the answer. *)
NodeInfoReturn(th) ==
    /\ At(th, "NodeInfo:return")
    /\ Goto(th, Returned("NodeInfo", pc[th].err))
    /\ UNCHANGED <<ctrlVars, crashed, run, sdkVars, envVars, ghostVars>>

(* ----------------------- CreateNetwork / RemoveNetwork ------------------ *)
CreateNetworkLock(th) == Lock(th, "idle", "CreateNetwork")

KnownNetworkIgnored(name) == FALSE

(* Line 332: `_, ok := c.networks[name]`. *)
KnownNetwork(name) == name \in networks

(* Lines 331-337: a known name returns nil at once; otherwise the name is       *)
(* entered in the active set and the adapter is called after the unlock.         *)
CreateNetwork(th) ==
    /\ Holding(th, "CreateNetwork")
    /\ \E name \in NetNames :
        \/ /\ KnownNetwork(name)
           /\ netCalls' = Bump(netCalls, name)
           /\ mu' = 0
           /\ Goto(th, Idle)
           /\ UNCHANGED <<dataVars, crashed, run, sdkVars, envVars>>
           /\ UNCHANGED <<suiteIdsRet, testIdsRet, testArgs, endTestOk, endTestDone, lateNodes, removeCalls, netCreates>>
        \/ /\ ~KnownNetwork(name)
           /\ networks' = networks \cup {name}
           /\ netCalls' = Bump(netCalls, name)
           /\ netCreates' = Bump(netCreates, name)
           /\ mu' = 0
           /\ Goto(th, [Idle EXCEPT !.op = "CreateNetwork:adapter", !.n = name])
           /\ UNCHANGED <<suiteSeq, testSeq, suites, tests, clients, results, imageOverrides>>
           /\ UNCHANGED <<crashed, run, sdkVars, envVars>>
           /\ UNCHANGED <<suiteIdsRet, testIdsRet, testArgs, endTestOk, endTestDone, lateNodes, removeCalls>>

(* Line 338 and docker.CreateNetwork: `docker network create` fails for a name  *)
(* that exists and may fail for any other reason; the error is returned.        *)
CreateNetworkAdapter(th) ==
    /\ At(th, "CreateNetwork:adapter")
    /\ \/ /\ pc[th].n \notin dockerNets
          /\ dockerNets' = dockerNets \cup {pc[th].n}
          /\ Goto(th, Idle)
       \/ /\ UNCHANGED dockerNets
          /\ Goto(th, [Idle EXCEPT !.err = "network create failed"])
    /\ UNCHANGED <<ctrlVars, crashed, run, sdkVars, containers, nextContainer, now, disk, fs, ghostVars>>

RemoveNetworkLock(th) == Lock(th, "idle", "RemoveNetwork")

(* Lines 342-344: the delete is unconditional. *)
RemoveNetwork(th) ==
    /\ Holding(th, "RemoveNetwork")
    /\ \E name \in NetNames :
        /\ networks' = networks \ {name}
        /\ netCalls' = [netCalls EXCEPT ![name] = 0]
        /\ netCreates' = [netCreates EXCEPT ![name] = 0]
        /\ Goto(th, [Idle EXCEPT !.op = "RemoveNetwork:adapter", !.n = name,
                                  !.known = name \in networks])
    /\ mu' = 0
    /\ UNCHANGED <<suiteSeq, testSeq, suites, tests, clients, results, imageOverrides>>
    /\ UNCHANGED <<crashed, run, sdkVars, envVars>>
    /\ UNCHANGED <<suiteIdsRet, testIdsRet, testArgs, endTestOk, endTestDone, lateNodes, removeCalls>>

(* Line 345 and docker.RemoveNetwork: `docker network rm` fails for a name that *)
(* does not exist and may fail for any other reason; the error is returned.     *)
RemoveNetworkAdapter(th) ==
    /\ At(th, "RemoveNetwork:adapter")
    /\ \/ /\ pc[th].n \in dockerNets
          /\ dockerNets' = dockerNets \ {pc[th].n}
          /\ Goto(th, Idle)
       \/ /\ UNCHANGED dockerNets
          /\ Goto(th, [Idle EXCEPT !.err = "network remove failed"])
    /\ UNCHANGED <<ctrlVars, crashed, run, sdkVars, containers, nextContainer, now, disk, fs, ghostVars>>

(* ------------------ SaveResults / SetSimLog / SetClientVersions ---------- *)
SaveResultsLock(th) == Lock(th, "idle", "SaveResults")

(* handleTest, after a successful EndTest: `s.ctrl.SaveResults(s.result)`. *)
FlushLock(th) == Lock(th, "flush", "SaveResults")

SavedReportingFailure(th, err) ==
    [pc[th] EXCEPT !.op = IF Served THEN "respond" ELSE "idle", !.err = err,
                   !.status = StatusOf("SaveResults", err)]

(* SaveResults returns err: to its caller, or to handleTest, which logs the    *)
(* error and answers "ok" either way.                                          *)
Saved(th, err) ==
    IF Served
    THEN [pc[th] EXCEPT !.op = "respond", !.err = err, !.status = 200]
    ELSE [Idle EXCEPT !.err = err]

(* Lines 360-369 and results.Writer.WriteSuite: the SuiteResults are written    *)
(* one by one in map order; the first failing write ends the call with its      *)
(* error, the files written before it stay written and the failing file is left *)
(* as it was or truncated.                                                      *)
SaveResultsOk(th) ==
    /\ Holding(th, "SaveResults")
    /\ disk' = [s \in (DOMAIN disk) \cup (DOMAIN results) |->
                    IF s \in DOMAIN results THEN results[s] ELSE disk[s]]
    /\ mu' = 0
    /\ Goto(th, Saved(th, ""))
    /\ UNCHANGED <<dataVars, crashed, run, sdkVars, containers, nextContainer, dockerNets, now, fs, ghostVars>>

SaveResultsFails(th) ==
    /\ Holding(th, "SaveResults")
    /\ \E failing \in DOMAIN results :
       \E written \in SUBSET ((DOMAIN results) \ {failing}), left \in {"unchanged", "truncated"} :
        disk' = [s \in (DOMAIN disk) \cup written \cup (IF left = "truncated" THEN {failing} ELSE {}) |->
                    IF s \in written THEN results[s]
                    ELSE IF s = failing /\ left = "truncated" THEN TruncatedFile
                    ELSE disk[s]]
    /\ mu' = 0
    /\ Goto(th, Saved(th, "write failed"))
    /\ UNCHANGED <<dataVars, crashed, run, sdkVars, containers, nextContainer, dockerNets, now, fs, ghostVars>>

SaveResults(th) == SaveResultsOk(th) \/ SaveResultsFails(th)

DecoratedLiveOnly == DOMAIN suites

(* `for _, res := range c.results`: every SuiteResult held, live suite or not. *)
Decorated == DOMAIN results

WithSimLog(logFile) ==
    [s \in DOMAIN results |-> IF s \in Decorated THEN [results[s] EXCEPT !.SimLog = logFile] ELSE results[s]]

RECURSIVE WithVersions(_, _)
WithVersions(cv, names) ==
    IF names = <<>> THEN cv
    ELSE WithVersions(IF Head(names) \in DOMAIN cv THEN cv ELSE Put(cv, Head(names), ""), Tail(names))

WithClientVersions(names) ==
    [s \in DOMAIN results |->
        IF s \in Decorated
        THEN [results[s] EXCEPT !.ClientVersions = WithVersions(@, names)]
        ELSE results[s]]

SetSimLogLock(th) == Lock(th, "idle", "SetSimLog")

SetSimLog(th) ==
    /\ Holding(th, "SetSimLog")
    /\ results' = WithSimLog(SimLogName)
    /\ mu' = 0
    /\ Goto(th, Idle)
    /\ UNCHANGED <<suiteSeq, testSeq, suites, tests, clients, networks, imageOverrides>>
    /\ UNCHANGED <<crashed, run, sdkVars, envVars, ghostVars>>

SetClientVersionsLock(th) == Lock(th, "idle", "SetClientVersions")

SetClientVersions(th) ==
    /\ Holding(th, "SetClientVersions")
    /\ results' = WithClientVersions(RunClients)
    /\ mu' = 0
    /\ Goto(th, Idle)
    /\ UNCHANGED <<suiteSeq, testSeq, suites, tests, clients, networks, imageOverrides>>
    /\ UNCHANGED <<crashed, run, sdkVars, envVars, ghostVars>>

(* ------------------------------ sim.Run --------------------------------- *)
RunAt(op) == run.op = op /\ ~crashed

RunGoto(op, err) == run' = [run EXCEPT !.op = op, !.err = err]

(* Lines 531-533: the overlay network is created first. *)
RunCreateNetwork ==
    /\ RunAt("start")
    /\ \/ /\ OverlayNet \notin dockerNets
          /\ dockerNets' = dockerNets \cup {OverlayNet}
          /\ RunGoto("overrides", "")
       \/ /\ UNCHANGED dockerNets
          /\ RunGoto("returned", "network create failed")
    /\ UNCHANGED <<ctrlVars, pc, crashed, containers, nextContainer, now, disk, fs, ghostVars>>
    /\ UNCHANGED sdkVars

(* Line 535 and SetImageOverrides (108-114), under the Controller's lock. *)
RunSetImageOverrides ==
    /\ RunAt("overrides")
    /\ mu = 0
    /\ \E images \in ClientImages : imageOverrides' = images
    /\ RunGoto("listen", "")
    /\ UNCHANGED <<mu, suiteSeq, testSeq, suites, tests, clients, networks, results>>
    /\ UNCHANGED <<pc, crashed, envVars, ghostVars>>
    /\ UNCHANGED sdkVars

(* Lines 537-549: the control server listens on a loopback port. *)
RunListen ==
    /\ RunAt("listen")
    /\ \/ run' = [run EXCEPT !.op = "buildsim", !.serving = TRUE]
       \/ RunGoto("returned", "listen failed")
    /\ UNCHANGED <<ctrlVars, pc, crashed, envVars, ghostVars>>
    /\ UNCHANGED sdkVars

(* Lines 551-559: the simulator image is built unless one was given. *)
RunBuildSimulator ==
    /\ RunAt("buildsim")
    /\ \/ RunGoto("buildclients", "")
       \/ RunGoto("returned", "simulator build failed")
    /\ UNCHANGED <<ctrlVars, pc, crashed, envVars, ghostVars>>
    /\ UNCHANGED sdkVars

(* opts.Clients as a set. *)
Listed == {RunClients[i] : i \in DOMAIN RunClients}

(* Lines 564-567: a listed client with a non-empty image override is counted    *)
(* without a build.                                                             *)
Overridden ==
    {c \in Listed : c \in DOMAIN imageOverrides /\ imageOverrides[c] # ""}

AnyClientMissing(successful) == successful < Len(RunClients)

(* Line 576. *)
NoClientImage(successful) == successful = 0

(* Lines 562-578: a client counts when it has an image override or its build    *)
(* succeeds; a failed build is logged and skipped; the run goes on when at      *)
(* least one client counts.                                                     *)
RunBuildClients ==
    /\ RunAt("buildclients")
    /\ \E built \in SUBSET (Listed \ Overridden) :
        LET successful == Cardinality(Overridden) + Cardinality(built)
        IN  run' = [run EXCEPT !.successful = successful,
                               !.op = IF NoClientImage(successful) THEN "returned" ELSE "versions",
                               !.err = IF NoClientImage(successful)
                                       THEN "no client images built successfully" ELSE ""]
    /\ UNCHANGED <<ctrlVars, pc, crashed, envVars, ghostVars>>
    /\ UNCHANGED sdkVars

(* Line 579 and SetClientVersions (383-393), before the simulator is started. *)
RunSetClientVersions ==
    /\ RunAt("versions")
    /\ mu = 0
    /\ results' = WithClientVersions(RunClients)
    /\ RunGoto("startsim", "")
    /\ UNCHANGED <<mu, suiteSeq, testSeq, suites, tests, clients, networks, imageOverrides>>
    /\ UNCHANGED <<pc, crashed, envVars, ghostVars>>
    /\ UNCHANGED sdkVars

(* Lines 596-604: the simulator container is started on the overlay network. *)
RunStartSimulator ==
    /\ RunAt("startsim")
    /\ \/ /\ containers' = containers \cup {SimContainer}
          /\ RunGoto("wait", "")
       \/ /\ UNCHANGED containers
          /\ RunGoto("returned", "simulator run failed")
    /\ UNCHANGED <<ctrlVars, pc, crashed, nextContainer, dockerNets, now, disk, fs, ghostVars>>
    /\ UNCHANGED sdkVars

(* What Wait can make Run return (618-625): nil for exit code 0. *)
WaitOutcomes == {"", "wait failed", "simulator exited with code 1"}

TeardownOnSuccessOnly(err) == IF err = "" THEN "teardown" ELSE "returned"

(* Lines 607-616: the teardown is deferred, so it runs whatever Run returns     *)
(* from here on.                                                                *)
Deferred(err) == "teardown"

(* Lines 618-625: Wait returns once the simulator has exited. *)
RunWait ==
    /\ RunAt("wait")
    /\ \E err \in WaitOutcomes : RunGoto(Deferred(err), err)
    /\ UNCHANGED <<ctrlVars, pc, crashed, envVars, ghostVars>>
    /\ UNCHANGED sdkVars

(* A step of the deferred teardown: the call is recorded in run.done, in the    *)
(* order the calls are made.                                                    *)
TeardownStep(call, next) ==
    run' = [run EXCEPT !.op = next, !.done = Append(@, call)]

(* Line 608: the simulator's logs are fetched; on an error the log is skipped. *)
RunLogs ==
    /\ RunAt("teardown")
    /\ \E next \in {"teardown:write", "teardown:remove"} : TeardownStep("Logs", next)
    /\ UNCHANGED <<ctrlVars, pc, crashed, envVars, ghostVars>>
    /\ UNCHANGED sdkVars

(* Line 609 and writeSimLog (673-681): logs/simulator-<id>.log is written. *)
RunWriteSimLog ==
    /\ RunAt("teardown:write")
    /\ \E next \in {"teardown:setsimlog", "teardown:remove"} : TeardownStep("writeSimLog", next)
    /\ UNCHANGED <<ctrlVars, pc, crashed, envVars, ghostVars>>
    /\ UNCHANGED sdkVars

(* Line 610 and SetSimLog (375-381), under the Controller's lock. *)
RunSetSimLog ==
    /\ RunAt("teardown:setsimlog")
    /\ mu = 0
    /\ results' = WithSimLog(SimLogName)
    /\ TeardownStep("SetSimLog", "teardown:remove")
    /\ UNCHANGED <<mu, suiteSeq, testSeq, suites, tests, clients, networks, imageOverrides>>
    /\ UNCHANGED <<pc, crashed, envVars, ghostVars>>
    /\ UNCHANGED sdkVars

(* Line 613: the simulator container is removed, the error ignored. *)
RunRemove ==
    /\ RunAt("teardown:remove")
    /\ containers' \in {containers, containers \ {SimContainer}}
    /\ TeardownStep("Remove", "teardown:rmnet")
    /\ UNCHANGED <<ctrlVars, pc, crashed, nextContainer, dockerNets, now, disk, fs, ghostVars>>
    /\ UNCHANGED sdkVars

(* Line 614: the overlay network is removed, the error ignored. *)
RunRemoveNetwork ==
    /\ RunAt("teardown:rmnet")
    /\ dockerNets' \in {dockerNets, dockerNets \ {OverlayNet}}
    /\ TeardownStep("RemoveNetwork", "teardown:shutdown")
    /\ UNCHANGED <<ctrlVars, pc, crashed, containers, nextContainer, now, disk, fs, ghostVars>>
    /\ UNCHANGED sdkVars

(* Line 615: the server is shut down; then Run returns what the body returned   *)
(* (618-625).                                                                   *)
RunShutdown ==
    /\ RunAt("teardown:shutdown")
    /\ run' = [run EXCEPT !.op = "returned", !.serving = FALSE, !.done = Append(@, "Shutdown")]
    /\ UNCHANGED <<ctrlVars, pc, crashed, envVars, ghostVars>>
    /\ UNCHANGED sdkVars

(* The simulator sends requests while its container runs. *)
Serving == run.op = "wait"

(* ------------------------------ labusim -------------------------------- *)
(* The simulator SDK. A string is a sequence of tokens, so that strings can be  *)
(* joined, formatted and searched; "" is the empty sequence.                    *)
Join(a, b) == a \o b

(* fmt.Sprintf with one argument: the verb is replaced by the argument. *)
RECURSIVE Sprintf(_, _)
Sprintf(format, arg) ==
    IF format = <<>> THEN <<>>
    ELSE Join(IF Head(format) = "%v" THEN arg ELSE <<Head(format)>>, Sprintf(Tail(format), arg))

Contains(s, sub) ==
    \E k \in 0..(Len(s) - Len(sub)) : SubSeq(s, k + 1, k + Len(sub)) = sub

(* regexp: a pattern is literal tokens and ".*"; a "(" that is never closed     *)
(* does not compile.                                                            *)
Compile(p) ==
    IF \E k \in DOMAIN p : p[k] = "(" THEN [ok |-> FALSE, re |-> <<>>] ELSE [ok |-> TRUE, re |-> p]

RECURSIVE MatchHere(_, _)
MatchHere(re, s) ==
    IF re = <<>> THEN TRUE
    ELSE IF Head(re) = ".*"
         THEN \E k \in 0..Len(s) : MatchHere(Tail(re), SubSeq(s, k + 1, Len(s)))
         ELSE s # <<>> /\ Head(s) = Head(re) /\ MatchHere(Tail(re), Tail(s))

(* Regexp.MatchString: the pattern matches somewhere in s. *)
MatchString(re, s) == \E k \in 0..Len(s) : MatchHere(re, SubSeq(s, k + 1, Len(s)))

NilPattern == [nil |-> TRUE, re |-> <<>>]

(* Lines 37-40 of New: an unset or empty LABU_TEST_PATTERN and a pattern that   *)
(* does not compile both leave TestPattern nil.                                 *)
TestPatternOf(p) ==
    IF p = <<>> \/ ~Compile(p).ok THEN NilPattern ELSE [nil |-> FALSE, re |-> Compile(p).re]

MatchEverything(pattern, name) == TRUE

(* Sim.match, lines 225-230. *)
match(pattern, name) == pattern.nil \/ MatchString(pattern.re, name)

(* T, lines 99-107, and its methods, 109-125. *)
NewT == [failed |-> FALSE, details |-> <<>>]

Fail(t, details) == [failed |-> TRUE, details |-> details]

Failf(t, format, arg) == [failed |-> TRUE, details |-> Sprintf(format, arg)]

Log(t, details) ==
    [t EXCEPT !.details = IF t.details = <<>> THEN details ELSE Join(Join(t.details, <<"\n">>), details)]

Call(t, c) ==
    CASE c.fn = "Fail" -> Fail(t, c.arg)
      [] c.fn = "Failf" -> Failf(t, c.format, c.arg)
      [] c.fn = "Log" -> Log(t, c.arg)

(* A test body: the calls it makes on its T before it returns. *)
RECURSIVE RunBody(_, _)
RunBody(calls, t) == IF calls = <<>> THEN t ELSE RunBody(Tail(calls), Call(t, Head(calls)))

(* readError, lines 399-411, on the body of a response that is not 2xx. *)
readError(body) ==
    IF body.len = 0 THEN <<"request failed">>
    ELSE IF body.json /\ body.error # <<>> THEN body.error
    ELSE body.raw

(* Bodies of error responses: empty, the server's {"error": msg}, a JSON        *)
(* document without an error message, and text that is not JSON.                *)
ErrorBodies ==
    {[len |-> 0, json |-> FALSE, error |-> <<>>, raw |-> <<>>],
     [len |-> 1, json |-> TRUE, error |-> <<"unknown client">>, raw |-> <<"{", "unknown client", "}">>],
     [len |-> 1, json |-> TRUE, error |-> <<>>, raw |-> <<"{", "}">>],
     [len |-> 1, json |-> FALSE, error |-> <<>>, raw |-> <<"bad gateway">>]}

(* The error of a request that got no response. *)
TransportError == <<"connection refused">>

(* What the suite and test requests return to the SDK when they fail: the error *)
(* of the transport, or the error read from the server's response.              *)
RequestErrors == {TransportError} \cup {readError(b) : b \in {e \in ErrorBodies : e.json /\ e.error # <<>>}}

(* Inputs: the test names, the bodies and the suites RunSuite is called on. *)
SdkTestNames == {<<"rpc", "/", "a">>, <<"sys", "/", "b">>}
PatternEnv == {<<>>, <<"rpc", "/", ".*">>, <<"b">>, <<"(", "rpc">>}
NoCall == [fn |-> "", format |-> <<>>, arg |-> <<>>]
LogOnly == <<[NoCall EXCEPT !.fn = "Log", !.arg = <<"seen">>]>>
FailOnly == <<[NoCall EXCEPT !.fn = "Fail", !.arg = <<"boom">>]>>
LogThenFailf ==
    <<[NoCall EXCEPT !.fn = "Log", !.arg = <<"seen">>],
      [NoCall EXCEPT !.fn = "Failf", !.format = <<"got ", "%v">>, !.arg = <<"7">>]>>
TestSpecs ==
    {[Name |-> <<"rpc", "/", "a">>, Run |-> body] : body \in {LogOnly, FailOnly}}
        \cup {[Name |-> <<"sys", "/", "b">>, Run |-> body] : body \in {LogOnly, LogThenFailf}}
ClientTestSpecs ==
    {[Name |-> <<"rpc", "/", "a">>, Run |-> <<>>], [Name |-> <<"sys", "/", "b">>, Run |-> FailOnly]}
SeqsUpTo(S, n) == UNION {[1..k -> S] : k \in 0..n}
NoSuite == [Tests |-> <<>>, ClientTests |-> <<>>]
SdkSuites == [Tests : SeqsUpTo(TestSpecs, MaxSdkTests), ClientTests : SeqsUpTo(ClientTestSpecs, MaxSdkClientTests)]

(* ------------------------------- Exec ----------------------------------- *)
(* What the container runtime did with a command: it could not be run at all,   *)
(* or it ran, wrote to stdout and stderr and exited with a code.                *)
ExecOutputs == {<<>>, <<"ok">>, <<"no such file">>}
NotStarted == [started |-> FALSE, code |-> 0, stdout |-> <<>>, stderr |-> <<>>]
RuntimeOutcomes ==
    {NotStarted} \cup [started : {TRUE}, code : 0..MaxExitCode, stdout : ExecOutputs, stderr : ExecOutputs]

NilError == [nil |-> TRUE, exit |-> FALSE, code |-> 0, msg |-> <<>>]

(* Runner.run, lines 142-149: cmd.Run returns an *exec.ExitError when the        *)
(* command exits with a code other than 0, and another error when it cannot be  *)
(* started.                                                                     *)
RunError(o) ==
    IF ~o.started THEN [nil |-> FALSE, exit |-> FALSE, code |-> 0, msg |-> <<"exec: docker: not found">>]
    ELSE IF o.code # 0 THEN [nil |-> FALSE, exit |-> TRUE, code |-> o.code, msg |-> <<"exit status ", ToString(o.code)>>]
    ELSE NilError

(* exitCode, lines 151-159. *)
exitCode(err) == IF err.nil THEN 0 ELSE IF err.exit THEN err.code ELSE 1

(* Runner.Exec, lines 72-79. *)
RunnerExec(o) ==
    LET err == RunError(o)
    IN  IF ~err.nil THEN [code |-> exitCode(err), stdout |-> o.stdout, stderr |-> o.stderr, err |-> err]
        ELSE [code |-> 0, stdout |-> o.stdout, stderr |-> o.stderr, err |-> NilError]

(* Controller.DockerExec, lines 371-373. *)
DockerExec(o) == RunnerExec(o)

NoBody == [len |-> 0, json |-> FALSE, error |-> <<>>, raw |-> <<>>]
NoOutput == [exitCode |-> 0, stdout |-> <<>>, stderr |-> <<>>]
NoResponse == [status |-> 0, body |-> NoBody, out |-> NoOutput]

(* writeError, lines 290-294: the body is {"error": msg}. *)
writeError(status, msg) ==
    [status |-> status, body |-> [len |-> 1, json |-> TRUE, error |-> msg, raw |-> <<"{">> \o msg \o <<"}">>],
     out |-> NoOutput]

AnswerWithResult(r) ==
    [status |-> 200, body |-> NoBody, out |-> [exitCode |-> r.code, stdout |-> r.stdout, stderr |-> r.stderr]]

(* handleNode, lines 206-216: what the server answers for the result of          *)
(* DockerExec.                                                                  *)
ExecResponse(r) ==
    IF ~r.err.nil THEN writeError(500, r.err.msg) ELSE AnswerWithResult(r)

(* Client.Exec, lines 148-160, on a response. *)
ExecReturn(resp) ==
    IF resp.status \div 100 # 2
    THEN [code |-> 1, stdout |-> <<>>, stderr |-> <<>>, err |-> readError(resp.body)]
    ELSE [code |-> resp.out.exitCode, stdout |-> resp.out.stdout, stderr |-> resp.out.stderr, err |-> <<>>]

ExecCommands == {<<"true">>, <<"cat", "/genesis.json">>, <<"sh", "-c", "exit 2">>}
NoExec == [command |-> <<>>, ran |-> NotStarted, resp |-> NoResponse,
           ret |-> [code |-> 0, stdout |-> <<>>, stderr |-> <<>>, err |-> <<>>]]

NoSpec == [Files |-> [nil |-> TRUE, m |-> EmptyMap], Environment |-> [nil |-> TRUE, m |-> EmptyMap]]

SdkIdle ==
    [op |-> "idle", TestPattern |-> NilPattern, pattern |-> <<>>, suite |-> NoSuite, suiteID |-> 0,
     phase |-> "tests", i |-> 0, testID |-> 0, t |-> NewT, err |-> <<>>, launchErr |-> <<>>,
     spec |-> NoSpec, vectorDir |-> "", dir |-> {}, launchSpec |-> [Files |-> EmptyMap, Environment |-> EmptyMap],
     exec |-> NoExec]

SdkInit == sdk = SdkIdle /\ wire = <<>>

SdkAt(op) == sdk.op = op

(* A request, or the call of a test body, as it is seen from outside: the       *)
(* registered test it belongs to (phase and index), the test id and verdict it  *)
(* carries, whether it was answered 2xx, for a launch that was not, the body of *)
(* the response, and for a suite or test request that failed, its error.        *)
Event(kind, ok) ==
    [kind |-> kind, phase |-> sdk.phase, i |-> sdk.i, id |-> sdk.testID,
     pass |-> ~sdk.t.failed, details |-> sdk.t.details, ok |-> ok, body |-> <<>>, err |-> <<>>]

Sent(kind, ok) == wire' = Append(wire, Event(kind, ok))

CtrlUnchanged == UNCHANGED <<ctrlVars, pc, crashed, run, envVars, ghostVars>>

(* New, lines 32-46: the filter is read from LABU_TEST_PATTERN. *)
SdkNew ==
    /\ SdkAt("idle")
    /\ \E p \in PatternEnv : sdk' = [sdk EXCEPT !.op = "new", !.pattern = p, !.TestPattern = TestPatternOf(p)]
    /\ UNCHANGED wire
    /\ CtrlUnchanged

(* RunSuite is called on a suite. *)
RunSuite ==
    /\ SdkAt("new")
    /\ \E suite \in SdkSuites : sdk' = [sdk EXCEPT !.op = "createSuite", !.suite = suite]
    /\ UNCHANGED wire
    /\ CtrlUnchanged

(* Lines 181-185: createSuite (232-248); on an error RunSuite returns it, and   *)
(* otherwise endSuite is deferred.                                              *)
SdkCreateSuite ==
    /\ SdkAt("createSuite")
    /\ \/ /\ sdk' = [sdk EXCEPT !.op = "loop", !.suiteID = 1, !.phase = "tests", !.i = 1]
          /\ Sent("CreateSuite", TRUE)
       \/ \E e \in RequestErrors :
            /\ sdk' = [sdk EXCEPT !.op = "returned", !.err = e]
            /\ wire' = Append(wire, [Event("CreateSuite", FALSE) EXCEPT !.err = e])
    /\ CtrlUnchanged

ReturnWithoutDelete(err) == IF err = <<>> THEN "endSuite" ELSE "returned"

(* Line 185: endSuite is deferred, so every return of RunSuite after it, with   *)
(* an error or without, passes through it.                                      *)
Return(err) == "endSuite"

CurrentTests == IF sdk.phase = "tests" THEN sdk.suite.Tests ELSE sdk.suite.ClientTests

(* Lines 187-190, 202-205 and 222: the head of the two loops; a test whose name *)
(* does not match is skipped, the client tests follow the free-form tests, and  *)
(* after the last one RunSuite returns nil.                                     *)
SdkLoop ==
    /\ SdkAt("loop")
    /\ sdk' = IF sdk.i > Len(CurrentTests)
              THEN IF sdk.phase = "tests"
                   THEN [sdk EXCEPT !.phase = "clients", !.i = 1]
                   ELSE [sdk EXCEPT !.op = Return(<<>>), !.err = <<>>]
              ELSE IF ~match(sdk.TestPattern, CurrentTests[sdk.i].Name)
                   THEN [sdk EXCEPT !.i = @ + 1]
                   ELSE [sdk EXCEPT !.op = "createTest"]
    /\ UNCHANGED wire
    /\ CtrlUnchanged

(* The id the server gives the next test. *)
NextSdkTestId == Cardinality({k \in DOMAIN wire : wire[k].kind = "CreateTest" /\ wire[k].ok}) + 1

(* Lines 191-195 and 206-210: createTest (263-279) and the test's T. *)
SdkCreateTest ==
    /\ SdkAt("createTest")
    /\ \/ /\ sdk' = [sdk EXCEPT !.op = IF sdk.phase = "tests" THEN "run" ELSE "launch",
                                !.testID = NextSdkTestId, !.t = NewT]
          /\ wire' = Append(wire, [Event("CreateTest", TRUE) EXCEPT !.id = NextSdkTestId])
       \/ \E e \in RequestErrors :
            /\ sdk' = [sdk EXCEPT !.op = Return(e), !.err = e]
            /\ wire' = Append(wire, [Event("CreateTest", FALSE) EXCEPT !.err = e])
    /\ CtrlUnchanged

(* Lines 211-212 and launchClient (295-336): the request returns a client or an *)
(* error; launchClient can also fail on a file before it sends anything.        *)
SdkLaunchClient ==
    /\ SdkAt("launch")
    /\ \/ /\ sdk' = [sdk EXCEPT !.op = "run"]
          /\ Sent("LaunchNode", TRUE)
       \/ \E b \in ErrorBodies :
            /\ sdk' = [sdk EXCEPT !.op = "launchFailed", !.launchErr = readError(b)]
            /\ wire' = Append(wire, [Event("LaunchNode", FALSE) EXCEPT !.body = b.raw])
       \/ /\ sdk' = [sdk EXCEPT !.op = "launchFailed", !.launchErr = TransportError]
          /\ Sent("LaunchNode", FALSE)
       \/ /\ sdk' = [sdk EXCEPT !.op = "launchFailed", !.launchErr = <<"open failed">>]
          /\ UNCHANGED wire
    /\ CtrlUnchanged

RunAfterLaunchFailed == "run"

(* Line 212: where RunSuite goes when launchClient returned an error. *)
AfterLaunchFailed == "endTest"

ReturnOnFailedEndTest(ok) == IF ok THEN "loop" ELSE "endSuite"

(* Lines 214-215: `_ = sim.endTest(...)` and `continue`. *)
AfterIgnoredEndTest(ok) == "loop"

(* Lines 213-216: the failed launch fails the test, which is ended with the     *)
(* error of endTest ignored, and the loop goes on.                              *)
SdkLaunchFailed ==
    /\ SdkAt("launchFailed")
    /\ LET t == Failf(sdk.t, <<"client launch failed: ", "%v">>, sdk.launchErr)
       IN  IF AfterLaunchFailed = "endTest"
           THEN \E ok \in BOOLEAN :
                    /\ sdk' = [sdk EXCEPT !.op = AfterIgnoredEndTest(ok), !.i = @ + 1, !.t = t]
                    /\ wire' = Append(wire, [Event("EndTest", ok) EXCEPT !.pass = FALSE, !.details = t.details])
           ELSE /\ sdk' = [sdk EXCEPT !.op = AfterLaunchFailed, !.t = t]
                /\ UNCHANGED wire
    /\ CtrlUnchanged

EndOnlyPassedTests(t) == IF t.failed THEN "loop" ELSE "endTest"

(* Lines 197 and 219: endTest follows the run function, whatever it did to T. *)
AfterRun(t) == "endTest"

(* Lines 196 and 218: the test's run function is called and returns. *)
SdkRun ==
    /\ SdkAt("run")
    /\ sdk' = [sdk EXCEPT !.op = AfterRun(RunBody(CurrentTests[sdk.i].Run, sdk.t)), !.t = RunBody(CurrentTests[sdk.i].Run, sdk.t)]
    /\ Sent("Run", TRUE)
    /\ CtrlUnchanged

AbortAfterFailedTest(t) == IF t.failed THEN "endSuite" ELSE "loop"

(* Lines 197-199 and 219-221: after an EndTest that was answered the loop goes  *)
(* on, whatever the verdict.                                                    *)
AfterEndTestOk(t) == "loop"

(* Lines 197-199 and 219-221: endTest (281-293) with the verdict of T; on an    *)
(* error RunSuite returns it.                                                   *)
SdkEndTest ==
    /\ SdkAt("endTest")
    /\ \/ /\ sdk' = [sdk EXCEPT !.op = AfterEndTestOk(sdk.t), !.i = @ + 1]
          /\ Sent("EndTest", TRUE)
       \/ \E e \in RequestErrors :
            /\ sdk' = [sdk EXCEPT !.op = Return(e), !.err = e]
            /\ wire' = Append(wire, [Event("EndTest", FALSE) EXCEPT !.err = e])
    /\ CtrlUnchanged

(* Line 185 and endSuite (250-261): the deferred DELETE, its error dropped;     *)
(* then RunSuite returns.                                                       *)
SdkEndSuite ==
    /\ SdkAt("endSuite")
    /\ sdk' = [sdk EXCEPT !.op = "returned"]
    /\ \E ok \in BOOLEAN : Sent("EndSuite", ok)
    /\ CtrlUnchanged

(* ----------------------- applyDefaultClientFiles ----------------------- *)
(* A Go map that may be nil, and the maps of a launch spec. *)
NilMap == [nil |-> TRUE, m |-> EmptyMap]

Overwrite(m, k, v) == Put(m, k, v)

(* `if _, ok := m[k]; !ok { m[k] = v }`, as in lines 354-359. *)
PutIfAbsent(m, k, v) == IF k \in DOMAIN m THEN m ELSE Put(m, k, v)

(* filepath.Join(dir, base) and the path of a mounted file. *)
PathIn(dir, base) == <<dir, base>>

(* The environment variable that points at a mounted vector file. *)
PathVariable(base) ==
    CASE base = "accounts.json" -> "LABU_ACCOUNTS_PATH"
      [] base = "genesis_state.json" -> "LABU_GENESIS_STATE_PATH"
      [] base = "config.json" -> "LABU_CONFIG_PATH"

(* Lines 352-370: accounts.json and genesis_state.json, when os.Stat finds      *)
(* them, are mounted and pointed at.                                            *)
WithKnownFile(spec, vectorDir, dir, base) ==
    IF base \in dir
    THEN [Files |-> PutIfAbsent(spec.Files, base, PathIn(vectorDir, base)),
          Environment |-> PutIfAbsent(spec.Environment, PathVariable(base), PathIn("/labu-files", base))]
    ELSE spec

(* Lines 372-387: every other *.json of the directory is mounted, and           *)
(* config.json is pointed at.                                                   *)
RECURSIVE WithMatches(_, _, _)
WithMatches(spec, vectorDir, matches) ==
    IF matches = {} THEN spec
    ELSE LET base == CHOOSE b \in matches : TRUE
             next == IF base \in {"accounts.json", "genesis_state.json"} THEN spec
                     ELSE [Files |-> PutIfAbsent(spec.Files, base, PathIn(vectorDir, base)),
                           Environment |-> IF base = "config.json"
                                           THEN PutIfAbsent(spec.Environment, PathVariable(base),
                                                            PathIn("/labu-files", base))
                                           ELSE spec.Environment]
         IN  WithMatches(next, vectorDir, matches \ {base})

JsonFiles == {"accounts.json", "genesis_state.json", "config.json", "extra.json"}

(* The base names of a directory that the pattern *.json matches. *)
Glob(dir) == dir \cap JsonFiles

(* applyDefaultClientFiles, lines 338-387: nil maps are made, and with          *)
(* LABU_VECTOR_DIR set the files of the directory are added.                    *)
applyDefaultClientFiles(spec, vectorDir, dir) ==
    LET made == [Files |-> spec.Files.m, Environment |-> spec.Environment.m]
    IN  IF vectorDir = "" THEN made
        ELSE WithMatches(
                WithKnownFile(WithKnownFile(made, vectorDir, dir, "accounts.json"),
                              vectorDir, dir, "genesis_state.json"),
                vectorDir, Glob(dir))

(* Inputs: the caller's maps, the value of LABU_VECTOR_DIR and the directory. *)
VectorFiles == JsonFiles \cup {"notes.txt"}
VectorDirs == {"", "/vectors"}
UserPath(base) == <<"user", base>>
MapsOver(keys) == {NilMap} \cup {[nil |-> FALSE, m |-> [k \in ks |-> UserPath(k)]] : ks \in SUBSET keys}
CallerFiles == MapsOver({"accounts.json", "config.json", "extra.json"})
CallerEnvironments == MapsOver({"LABU_ACCOUNTS_PATH", "LABU_CONFIG_PATH", "LABU_NETWORK"})

(* Line 296: launchClient decorates the spec it was given before it builds the  *)
(* request.                                                                     *)
SdkApplyDefaults ==
    /\ SdkAt("idle")
    /\ \E files \in CallerFiles, environment \in CallerEnvironments,
          vectorDir \in VectorDirs, dir \in SUBSET VectorFiles :
        LET spec == [Files |-> files, Environment |-> environment]
        IN  sdk' = [sdk EXCEPT !.op = "decorated", !.spec = spec, !.vectorDir = vectorDir, !.dir = dir,
                               !.launchSpec = applyDefaultClientFiles(spec, vectorDir, dir)]
    /\ UNCHANGED wire
    /\ CtrlUnchanged

(* Client.Exec, lines 140-144: the command is posted to .../exec. *)
SdkExec ==
    /\ SdkAt("idle")
    /\ \E command \in ExecCommands :
        sdk' = [sdk EXCEPT !.op = "exec", !.exec = [NoExec EXCEPT !.command = command]]
    /\ Sent("Exec", TRUE)
    /\ CtrlUnchanged

(* handleNode, lines 194-217: the server runs the command through DockerExec    *)
(* and answers.                                                                 *)
HandleExec ==
    /\ SdkAt("exec")
    /\ \E o \in RuntimeOutcomes :
        sdk' = [sdk EXCEPT !.op = "execAnswered", !.exec.ran = o, !.exec.resp = ExecResponse(DockerExec(o))]
    /\ UNCHANGED wire
    /\ CtrlUnchanged

(* Client.Exec, lines 148-160: the response is turned into the return values.   *)
SdkExecReturn ==
    /\ SdkAt("execAnswered")
    /\ sdk' = [sdk EXCEPT !.op = "execReturned", !.exec.ret = ExecReturn(sdk.exec.resp)]
    /\ UNCHANGED wire
    /\ CtrlUnchanged

(* The Controller after New, nothing started, and the simulator not yet run. *)
Init ==
    /\ New
    /\ EnvInit
    /\ GhostInit
    /\ pc = [th \in Threads |-> Idle]
    /\ run = [op |-> "start", err |-> "", successful |-> 0, serving |-> FALSE, done |-> <<>>]
    /\ SdkInit

(* ======================================================================== *)
(* Properties                                                               *)
(* ======================================================================== *)
StrictlyIncreasing(seq) == \A i, j \in DOMAIN seq : i < j => seq[i] < seq[j]

(* C1: the ids returned by CreateSuite are strictly increasing in the order of  *)
(* return and start at 1, and so are the ids returned by CreateTest; hence no   *)
(* id is returned twice, also after the suite or test it named is gone.         *)
C1_IdsStrictlyIncreasing ==
    /\ StrictlyIncreasing(suiteIdsRet)
    /\ StrictlyIncreasing(testIdsRet)
    /\ (suiteIdsRet # <<>> => suiteIdsRet[1] = 1)
    /\ (testIdsRet # <<>> => testIdsRet[1] = 1)

(* Two suites and two tests were created and the suite named by the first id was ended. *)
C1_Witness ==
    /\ Len(suiteIdsRet) = 2
    /\ Len(testIdsRet) = 2
    /\ 1 \notin DOMAIN suites

(* C2: the test counter is global: every CreateTest that returned got an id of  *)
(* its own, no test id is in the Tests map of two suites, and the Test it names *)
(* is the one created under that id (name and owning suite as given).           *)
C2_TestIdNamesOneTest ==
    /\ \A i, j \in DOMAIN testIdsRet : i # j => testIdsRet[i] # testIdsRet[j]
    /\ \A s1, s2 \in DOMAIN suites : s1 # s2 => suites[s1].Tests \cap suites[s2].Tests = {}
    /\ Cardinality(DOMAIN tests) = Len(testIdsRet)
    /\ \A t \in DOMAIN testArgs :
        /\ t \in DOMAIN tests
        /\ tests[t].ID = t
        /\ \A s \in DOMAIN suites : t \in suites[s].Tests => testArgs[t].s = s

(* Two live suites hold one test each. *)
C2_Witness ==
    /\ DOMAIN suites = {1, 2}
    /\ suites[1].Tests # {}
    /\ suites[2].Tests # {}

(* The step in which EndTest leaves its critical section having written the     *)
(* result: from there it only tears down nodes and returns nil.                 *)
EndTestCommits(th) == pc[th].op = "EndTest" /\ pc'[th].op = "EndTest:remove"

EndTestReturns(th) == pc[th].op = "EndTest:remove" /\ pc'[th].op = "idle"

Finalized(s) == {t \in DOMAIN testArgs : <<s, t>> \in endTestOk}

(* C4: for every suite ever created, the keys of results[s].testCases are       *)
(* exactly the decimal strings of the tests of s that EndTest finalized: none   *)
(* for an unfinalized test, none for a test of another suite, none lost.        *)
C4_TestCasesAreFinalizedTests ==
    \A s \in 1..suiteSeq :
        /\ s \in DOMAIN results
        /\ DOMAIN results[s].TestCases = {Itoa(t) : t \in Finalized(s)}
        /\ \A t \in Finalized(s) : testArgs[t].s = s
        /\ Cardinality(DOMAIN results[s].TestCases) = Cardinality(Finalized(s))

(* Suite 1 has a finalized and an unfinalized test, or a finalized test while   *)
(* the other test belongs to suite 2.                                           *)
C4_Witness ==
    /\ suiteSeq = 2
    /\ testSeq = 2
    /\ Cardinality(DOMAIN results[1].TestCases) = 1
    /\ DOMAIN results[2].TestCases = {}
    /\ 1 \notin DOMAIN suites

(* C6: the accumulator holds exactly one SuiteResult per id CreateSuite         *)
(* returned, live or ended, stored under its own id; every live suite has one.  *)
C6_OneResultPerCreatedSuite ==
    /\ DOMAIN results = 1..suiteSeq
    /\ DOMAIN results = {suiteIdsRet[i] : i \in DOMAIN suiteIdsRet}
    /\ DOMAIN suites \subseteq DOMAIN results
    /\ \A s \in DOMAIN results : results[s].ID = s

(* One suite is live, the other was ended, and EndTest wrote into the live one. *)
C6_Witness ==
    /\ suiteSeq = 2
    /\ Cardinality(DOMAIN suites) = 1
    /\ \E s \in DOMAIN suites : results[s].TestCases # EmptyMap

(* C7 as claimed: when EndTest returns, Remove has been invoked exactly once    *)
(* for the container of every node that was registered in the test.             *)
C7_RemovedExactlyOnce ==
    [][\A th \in Threads : EndTestReturns(th) =>
        \A id \in pc[th].snap : removeCalls[tests[pc[th].t].Nodes[id].ContainerID] = 1]_vars

(* C7 amended: when EndTest returns, Remove has been invoked at least once for  *)
(* the container of every node that was registered in the test when EndTest     *)
(* wrote its result.                                                            *)
C7_RemovedAtLeastOnce ==
    [][\A th \in Threads : EndTestReturns(th) =>
        \A id \in pc[th].snap : removeCalls[tests[pc[th].t].Nodes[id].ContainerID] >= 1]_vars

(* An EndTest that found a registered node has gone through its teardown loop. *)
C7_Witness ==
    \E th \in Threads :
        /\ pc[th].op = "EndTest:remove"
        /\ pc[th].snap # {}
        /\ pc[th].snap \subseteq pc[th].visited

(* No EndTest of test t is still running. *)
EndTestsReturned(t) == \A th \in Threads : ~(pc[th].op \in {"EndTest", "EndTest:remove"} /\ pc[th].t = t)

(* C8 as claimed: once a LaunchNode(s, t, .) and an EndTest(s, t, .) that ran   *)
(* while that LaunchNode was in progress have both returned success, the node   *)
(* is in the clientInfo of test t and Remove has been invoked for its           *)
(* container.                                                                   *)
C8_LaunchedNodeTornDown ==
    \A s \in DOMAIN results, t \in DOMAIN tests :
        (<<s, t>> \in endTestOk /\ EndTestsReturned(t) /\ ~crashed) =>
            \A id \in (DOMAIN tests[t].Nodes) \cap lateNodes :
                /\ id \in DOMAIN results[s].TestCases[Itoa(t)].ClientInfo
                /\ removeCalls[tests[t].Nodes[id].ContainerID] >= 1

(* EndSuite's successful return, the successful return of SaveResults. *)
EndSuiteSucceeds(th) == pc[th].op = "EndSuite" /\ pc'[th].op = "idle" /\ suites' # suites

SaveResultsSucceeds(th) == pc[th].op = "SaveResults" /\ pc'[th].op = "idle" /\ pc'[th].err = ""

(* C5: a successful EndSuite(s) removes the live Suite record of s and nothing  *)
(* else (every SuiteResult, the other live suites, the tests and both counters  *)
(* stay as they were); a later successful SaveResults writes the result of      *)
(* every suite ever created, ended ones included, and SetSimLog and             *)
(* SetClientVersions decorate every one of them.                                *)
C5_EndSuiteKeepsResult ==
    [][\A th \in Threads :
        /\ EndSuiteSucceeds(th) =>
            /\ results' = results
            /\ suiteSeq' = suiteSeq /\ testSeq' = testSeq
            /\ tests' = tests /\ disk' = disk
            /\ \E s \in DOMAIN suites :
                /\ DOMAIN suites' = (DOMAIN suites) \ {s}
                /\ \A o \in DOMAIN suites' : suites'[o] = suites[o]
        /\ SaveResultsSucceeds(th) =>
            \A s \in 1..suiteSeq : s \in DOMAIN disk' /\ disk'[s] = results[s]
        /\ (pc[th].op = "SetSimLog" /\ pc'[th].op = "idle") =>
            \A s \in 1..suiteSeq : results'[s].SimLog = SimLogName
        /\ (pc[th].op = "SetClientVersions" /\ pc'[th].op = "idle") =>
            \A s \in 1..suiteSeq : \A i \in DOMAIN RunClients :
                RunClients[i] \in DOMAIN results'[s].ClientVersions
      ]_vars

(* Suite 1 was ended with a test result in it, and the file on disk is its      *)
(* result, decorated with the log name and the client versions.                 *)
C5_Witness ==
    /\ suiteSeq >= 1
    /\ 1 \notin DOMAIN suites
    /\ results[1].TestCases # EmptyMap
    /\ results[1].SimLog = SimLogName
    /\ "c2" \in DOMAIN results[1].ClientVersions
    /\ 1 \in DOMAIN disk
    /\ disk[1] = results[1]

(* C9 as claimed: every SuiteResult of a suite created during a run has an      *)
(* empty-string clientVersions entry for every client of the run configuration  *)
(* (entries are never removed, so it is enough to look at every state).         *)
C9_ClientVersionsAtCreation ==
    \A s \in DOMAIN results : \A i \in DOMAIN RunClients :
        /\ RunClients[i] \in DOMAIN results[s].ClientVersions
        /\ results[s].ClientVersions[RunClients[i]] = ""

RemoveAbsentReturns(th) ==
    pc[th].op = "RemoveNetwork:adapter" /\ ~pc[th].known /\ pc'[th].op = "idle"

(* C11 as claimed: RemoveNetwork(n) for a name that is not in the active set    *)
(* leaves the active set unchanged and returns success.                         *)
C11_RemoveAbsentSucceeds ==
    [][\A th \in Threads :
        /\ (pc[th].op = "RemoveNetwork" /\ pc'[th].op = "RemoveNetwork:adapter" /\ ~pc'[th].known) =>
            networks' = networks
        /\ RemoveAbsentReturns(th) => pc'[th].err = ""
      ]_vars

(* The errors with which the Controller reports an unknown suite or test. *)
NotFoundErrors == {"suite not found", "test not found"}

(* C12 as claimed: a request whose Controller call failed with an unknown suite *)
(* or an unknown test is answered with status 404, whatever the endpoint.       *)
C12_NotFoundIs404 ==
    \A th \in Threads :
        (pc[th].op = "respond" /\ pc[th].err \in NotFoundErrors) => pc[th].status = 404

(* EndSuite, CreateTest, EndTest or LaunchNode returns a classification error. *)
Rejected(th) ==
    /\ pc[th].op \in {"EndSuite", "CreateTest", "EndTest", "LaunchNode"}
    /\ pc'[th].op = "respond"
    /\ pc'[th].err \in NotFoundErrors \cup {"unknown client"}

(* C13: a call rejected with an unknown suite, test or client leaves the live   *)
(* suites, the tests with their nodes, the result accumulator and both id       *)
(* counters as they were, and no adapter operation has acted: containers,       *)
(* networks, the count of Remove invocations and the result files are as        *)
(* before.                                                                      *)
C13_RejectedCallChangesNothing ==
    [][\A th \in Threads : Rejected(th) =>
        /\ suites' = suites /\ tests' = tests /\ results' = results
        /\ suiteSeq' = suiteSeq /\ testSeq' = testSeq
        /\ networks' = networks /\ clients' = clients /\ imageOverrides' = imageOverrides
        /\ containers' = containers /\ nextContainer' = nextContainer
        /\ dockerNets' = dockerNets /\ removeCalls' = removeCalls /\ disk' = disk
      ]_vars

(* A LaunchNode naming an unknown client was rejected on a test that exists,    *)
(* and the test counter still stands at that test.                              *)
C13_Witness ==
    \E th \in Threads :
        /\ pc[th].op = "respond"
        /\ pc[th].h = "LaunchNode"
        /\ pc[th].err = "unknown client"
        /\ testSeq = 1
        /\ DOMAIN tests = {1}

(* C14 as claimed: LaunchNode registers a Node and returns {id, ip} only when    *)
(* every adapter call succeeded, the IP query included, so no registered node   *)
(* is without the ip that the query gives.                                      *)
C14_NoNodeWithoutIP ==
    \A t \in DOMAIN tests : \A id \in DOMAIN tests[t].Nodes :
        tests[t].Nodes[id].IP = IPOf(tests[t].Nodes[id].ContainerID)

(* The positions at which a goroutine is inside an adapter operation. *)
AdapterPositions ==
    {"EndTest:remove", "LaunchNode:build", "LaunchNode:run",
     "CreateNetwork:adapter", "RemoveNetwork:adapter"}

(* A step in which the adapter acted: a container or a network was created or   *)
(* removed, or Remove was invoked.                                              *)
AdapterActs ==
    \/ containers' # containers
    \/ nextContainer' # nextContainer
    \/ dockerNets' # dockerNets
    \/ removeCalls' # removeCalls

(* C15: a goroutine inside an adapter operation does not hold the mutex, and    *)
(* every step in which the adapter acts is taken by a goroutine other than the  *)
(* holder of the mutex, which stays where it is.                                *)
C15_AdapterCallsOutsideMutex ==
    /\ [](\A th \in Threads : pc[th].op \in AdapterPositions => mu # th)
    /\ [][AdapterActs => (mu' = mu /\ \A th \in Threads : mu = th => pc'[th] = pc[th])]_vars

(* One request holds the mutex in CreateTest while another is inside the        *)
(* adapter's Remove loop of EndTest or inside Build or Run of LaunchNode.       *)
C15_Witness ==
    \E th \in Threads, o \in Threads :
        /\ pc[th].op \in {"EndTest:remove", "LaunchNode:build", "LaunchNode:run"}
        /\ pc[o].op \in {"CreateNetwork", "LaunchNode:register", "EndTest"}
        /\ mu = o

(* C16 as claimed: no goroutine is inside EndTest's loop over a test's node map, *)
(* which runs without the mutex, while another is at the write to that map in   *)
(* LaunchNode.                                                                  *)
C16_NodeMapUnderMutex ==
    \A th \in Threads, o \in Threads :
        ~ /\ pc[th].op = "EndTest:remove"
          /\ mu # th
          /\ pc[o].op = "LaunchNode:register"
          /\ mu = o
          /\ pc[o].t = pc[th].t

(* C17 as claimed: a result file holds testCases[t] only when an EndTest of     *)
(* test t has returned to its caller.                                           *)
C17_WrittenOnlyAfterEndTestReturns ==
    \A s \in DOMAIN disk :
        disk[s] # TruncatedFile =>
            \A key \in DOMAIN disk[s].TestCases : \E t \in endTestDone : Itoa(t) = key

(* The handler of a successful EndTest turns to its response, the flush having  *)
(* returned err.                                                                *)
EndTestAnswered(th, err) ==
    /\ pc[th].op # "respond"
    /\ pc'[th].op = "respond"
    /\ pc'[th].h = "EndTest"
    /\ pc'[th].err = err

(* C18: when the handler of a successful EndTest(s, t) turns to its "ok" and    *)
(* the writer did not fail, the file of every suite ever created, live or       *)
(* ended, equals its SuiteResult as of the flush, and the file of suite s holds *)
(* the entry of test t with the verdict in memory.                              *)
C18_FlushAfterEndTest ==
    [][\A th \in Threads : EndTestAnswered(th, "") =>
        /\ pc'[th].status = 200
        /\ \A s \in 1..suiteSeq : s \in DOMAIN disk' /\ disk'[s] = results[s]
        /\ Itoa(pc'[th].t) \in DOMAIN disk'[pc'[th].s].TestCases
        /\ disk'[pc'[th].s].TestCases[Itoa(pc'[th].t)].SummaryResult.Pass = tests[pc'[th].t].Pass
      ]_vars

(* Suite 1 was ended, test 1 of suite 2 was finalized as passed, and the        *)
(* handler is about to answer "ok" with both files on disk.                     *)
C18_Witness ==
    \E th \in Threads :
        /\ pc[th].op = "respond" /\ pc[th].h = "EndTest" /\ pc[th].err = "" /\ pc[th].status = 200
        /\ DOMAIN suites = {2}
        /\ DOMAIN disk = {1, 2}
        /\ disk[1] = results[1]
        /\ DOMAIN disk[2].TestCases = {Itoa(1)}
        /\ disk[2].TestCases[Itoa(1)].SummaryResult.Pass

(* C19: result files change only in the flush that the handler of a successful *)
(* EndTest makes; an EndTest that fails is answered without a flush; and when   *)
(* the flush fails the handler still answers 200 and the Controller's state is  *)
(* what the flush found, as it is when the flush succeeds.                      *)
C19_FlushOnlyAtEndTest ==
    [][/\ disk' # disk =>
            \E th \in Threads :
                /\ pc[th].op = "SaveResults" /\ pc[th].h = "EndTest"
                /\ <<pc[th].s, pc[th].t>> \in endTestOk
                /\ pc'[th].op = "respond"
       /\ \A th \in Threads :
            /\ (pc[th].op = "EndTest" /\ pc'[th].op = "respond") =>
                (pc'[th].status = 404 /\ disk' = disk)
            /\ EndTestAnswered(th, "write failed") =>
                (pc'[th].status = 200 /\ dataVars' = dataVars)
            /\ EndTestAnswered(th, "") =>
                (pc'[th].status = 200 /\ dataVars' = dataVars)
      ]_vars

(* The flush after a successful EndTest failed and the handler is about to      *)
(* answer 200.                                                                  *)
C19_Witness ==
    \E th \in Threads :
        /\ pc[th].op = "respond" /\ pc[th].h = "EndTest"
        /\ pc[th].err = "write failed" /\ pc[th].status = 200
        /\ <<pc[th].s, pc[th].t>> \in endTestOk

(* C20: once Run has returned after the simulator exited, with exit code zero   *)
(* or not, and no request is in flight, every suite of the run has a result     *)
(* file equal to the Controller's SuiteResult, simLog included.                 *)
C20_FlushedWhenRunReturns ==
    (/\ run.op = "returned"
     /\ run.err \in {"", "simulator exited with code 1"}
     /\ \A th \in Threads : pc[th] = Idle)
        => \A s \in DOMAIN results : s \in DOMAIN disk /\ disk[s] = results[s]

(* C21: whenever Run has returned after it created the overlay network, the     *)
(* overlay network is gone from the runtime, the server no longer serves, and   *)
(* the simulator container is gone.                                             *)
C21_TeardownOnEveryReturn ==
    (run.op = "returned" /\ run.err # "network create failed")
        => (OverlayNet \notin dockerNets /\ ~run.serving /\ SimContainer \notin containers)

(* C22: the run goes past the client builds exactly when at least one listed   *)
(* client has an image (an override or a successful build), whatever became of  *)
(* the other builds; an override alone is enough; and when no client has an     *)
(* image Run returns the error and the simulator container is never started.    *)
C22_ProceedsIffOneClientImage ==
    /\ [](SimContainer \in containers => run.successful >= 1)
    /\ []((run.op = "returned" /\ run.err = "no client images built successfully")
            => (run.successful = 0 /\ SimContainer \notin containers))
    /\ [][run.op = "buildclients" =>
            /\ run'.successful >= Cardinality(Overridden)
            /\ run'.successful <= Len(RunClients)
            /\ (run'.successful >= 1) <=> (run'.op = "versions")
            /\ (run'.successful = 0) <=>
                    (run'.op = "returned" /\ run'.err = "no client images built successfully")
       ]_vars

(* The simulator container runs although one of the two listed clients has no   *)
(* image.                                                                       *)
C22_Witness ==
    /\ SimContainer \in containers
    /\ run.successful = 1
    /\ Len(RunClients) = 2

(* The order of the teardown calls: the log is fetched, written and registered, *)
(* each only when the one before succeeded, and then the container and the      *)
(* network are removed and the server is shut down.                             *)
TeardownOrders ==
    {<<"Logs", "writeSimLog", "SetSimLog", "Remove", "RemoveNetwork", "Shutdown">>,
     <<"Logs", "writeSimLog", "Remove", "RemoveNetwork", "Shutdown">>,
     <<"Logs", "Remove", "RemoveNetwork", "Shutdown">>}

IsPrefix(p, q) == Len(p) <= Len(q) /\ SubSeq(q, 1, Len(p)) = p

(* C23: once Wait has returned the teardown calls are made in the order logs,   *)
(* log file, SetSimLog, Remove, RemoveNetwork, Shutdown; the simulator          *)
(* container stays until its logs were asked for; and Run returns after the     *)
(* whole sequence, with an error when the exit code was not zero.               *)
C23_TeardownOrder ==
    /\ [](\E q \in TeardownOrders : IsPrefix(run.done, q))
    /\ []((run.op = "returned" /\ run.err \in WaitOutcomes) => run.done \in TeardownOrders)
    /\ [][/\ (SimContainer \in containers /\ SimContainer \notin containers')
                => (Len(run.done) >= 1 /\ run.done[1] = "Logs")
          /\ (run.op = "wait" /\ run'.op # "wait") => (run'.op = "teardown" /\ run'.done = <<>>)
          /\ (run.op # "returned" /\ run'.op = "returned" /\ run.done # <<>>) =>
                (run'.err = run.err /\ run'.err \in WaitOutcomes)
       ]_vars

(* The simulator exited with a non-zero code, the whole sequence ran with the   *)
(* log registered, and Run returned the error.                                  *)
C23_Witness ==
    /\ run.op = "returned"
    /\ run.err = "simulator exited with code 1"
    /\ run.done = <<"Logs", "writeSimLog", "SetSimLog", "Remove", "RemoveNetwork", "Shutdown">>
    /\ SimContainer \notin containers

(* The positions in the SDK's trace of the requests of one kind. *)
Requests(kind) == {k \in DOMAIN wire : wire[k].kind = kind}

TestRequestKinds == {"CreateTest", "LaunchNode", "EndTest"}

(* C24: when RunSuite has returned and the suite was created, one DELETE of the *)
(* suite was issued and it is the last request, whatever RunSuite returns and   *)
(* whether or not a launch failed; none is issued before, nor for a suite that  *)
(* was not created.                                                             *)
C24_SuiteDeletedOnce ==
    /\ (sdk.op = "returned" /\ sdk.suiteID # 0) =>
            /\ Cardinality(Requests("EndSuite")) = 1
            /\ wire[Len(wire)].kind = "EndSuite"
    /\ (sdk.op # "returned" \/ sdk.suiteID = 0) => Requests("EndSuite") = {}

(* RunSuite returned the error of a request of a test, after a first test was   *)
(* created, and the suite was deleted.                                          *)
C24_Witness ==
    /\ sdk.op = "returned"
    /\ sdk.err # <<>>
    /\ \E k \in Requests("CreateTest") : wire[k].ok
    /\ \E k \in Requests("EndSuite") : \A j \in DOMAIN wire : wire[j].kind \in TestRequestKinds => j < k

(* The registered test an event of the trace belongs to. *)
TestOf(e) == <<e.phase, e.i>>

TestEvents == {k \in DOMAIN wire : wire[k].kind \in TestRequestKinds \cup {"Run"}}

(* Free-form tests come before client tests, each list in its order. *)
Before(x, y) == (x[1] = "tests" /\ y[1] = "clients") \/ (x[1] = y[1] /\ x[2] < y[2])

(* The order of a test's own events. *)
Rank(kind) == CASE kind = "CreateTest" -> 1 [] kind = "LaunchNode" -> 2 [] kind = "Run" -> 3 [] kind = "EndTest" -> 4

(* C25: the events of two tests are never interleaved: of two events the later  *)
(* belongs to the same test, at a later stage of it, or to a test registered    *)
(* later, free-form tests first; a test is created at most once and ended at    *)
(* most once, only after it was created and with the id it was given; and when  *)
(* RunSuite has returned every created test has its EndTest, before the DELETE. *)
C25_TestsRunSerially ==
    /\ \A j, k \in TestEvents :
        j < k => \/ Before(TestOf(wire[j]), TestOf(wire[k]))
                 \/ (TestOf(wire[j]) = TestOf(wire[k]) /\ Rank(wire[j].kind) < Rank(wire[k].kind))
    /\ \A k \in Requests("EndTest") \cup Requests("LaunchNode") \cup Requests("Run") :
        \E j \in Requests("CreateTest") :
            j < k /\ wire[j].ok /\ TestOf(wire[j]) = TestOf(wire[k]) /\ wire[j].id = wire[k].id
    /\ sdk.op = "returned" =>
        \A j \in Requests("CreateTest") :
            wire[j].ok =>
                \E k \in Requests("EndTest") :
                    /\ j < k /\ TestOf(wire[k]) = TestOf(wire[j])
                    /\ \A d \in Requests("EndSuite") : k < d

(* RunSuite returned after two free-form tests and a client test, each created  *)
(* and ended.                                                                   *)
C25_Witness ==
    /\ sdk.op = "returned"
    /\ Cardinality({k \in Requests("CreateTest") : wire[k].ok}) = MaxSdkTests + MaxSdkClientTests
    /\ Cardinality(Requests("EndTest")) = MaxSdkTests + MaxSdkClientTests
    /\ Requests("LaunchNode") # {}

(* The registered test of an event, and what its body does. *)
Registered(e) == IF e.phase = "tests" THEN sdk.suite.Tests[e.i] ELSE sdk.suite.ClientTests[e.i]

Failing(calls) == {k \in DOMAIN calls : calls[k].fn \in {"Fail", "Failf"}}

(* The message of a Fail or Failf call. *)
FailureOf(c) == IF c.fn = "Fail" THEN c.arg ELSE Sprintf(c.format, c.arg)

WasRun(e) == \E k \in Requests("Run") : TestOf(wire[k]) = TestOf(e)

(* C26: the EndTest of a test whose body ran carries pass=false exactly when    *)
(* the body called Fail or Failf, then with the details of its last failure,    *)
(* and pass=true otherwise, whatever the body logged and whatever the tests     *)
(* before it did; EndTest is issued after every body; and after an answered     *)
(* EndTest the loop goes on to the next registered test, failed or not.         *)
C26_FailDoesNotAbort ==
    /\ [](\A k \in Requests("EndTest") :
            WasRun(wire[k]) =>
                LET calls == Registered(wire[k]).Run
                IN  /\ wire[k].pass = (Failing(calls) = {})
                    /\ \A c \in Failing(calls) :
                        (\A d \in Failing(calls) : d <= c) => Contains(wire[k].details, FailureOf(calls[c])))
    /\ [][/\ sdk.op = "run" => sdk'.op = "endTest"
          /\ (sdk.op = "endTest" /\ wire'[Len(wire')].ok) =>
                (sdk'.op = "loop" /\ sdk'.i = sdk.i + 1 /\ sdk'.phase = sdk.phase)
       ]_vars

(* A first test failed, was ended with pass=false, and a second test, which     *)
(* only logs, was run and ended with pass=true.                                 *)
C26_Witness ==
    \E j, k \in Requests("EndTest") :
        /\ j < k /\ wire[j].ok /\ wire[k].ok
        /\ ~wire[j].pass /\ wire[j].details = <<"boom">>
        /\ wire[k].pass /\ wire[k].details = <<"seen">>
        /\ WasRun(wire[k])

(* The server's error response to a launch of an unknown client. *)
UnknownClientBody == <<"{", "unknown client", "}">>

(* C27: a client test whose launch failed is never run; it is ended with        *)
(* pass=false and with details that are "client launch failed: " followed by    *)
(* the error launchClient returned, which for the server's error response is    *)
(* the message in it; and the loop goes on to the next client test.             *)
C27_LaunchFailureFailsTest ==
    /\ [](\A k \in Requests("LaunchNode") :
            ~wire[k].ok =>
                /\ ~WasRun(wire[k])
                /\ \A j \in Requests("EndTest") :
                    TestOf(wire[j]) = TestOf(wire[k]) =>
                        /\ ~wire[j].pass
                        /\ wire[k].body = UnknownClientBody =>
                                wire[j].details = <<"client launch failed: ", "unknown client">>)
    /\ [][sdk.op = "launchFailed" =>
            /\ sdk'.op = "loop" /\ sdk'.i = sdk.i + 1 /\ sdk'.phase = "clients"
            /\ Len(wire') = Len(wire) + 1
            /\ LET e == wire'[Len(wire')]
               IN  /\ e.kind = "EndTest" /\ e.id = sdk.testID /\ ~e.pass
                   /\ e.details = Join(<<"client launch failed: ">>, sdk.launchErr)
                   /\ Contains(e.details, sdk.launchErr)
                   /\ ~WasRun(e)
       ]_vars

(* The launch of the first client test was answered with the server's error,    *)
(* the test was ended as failed with that message, and the second client test   *)
(* was created, launched and run.                                               *)
C27_Witness ==
    \E k \in Requests("LaunchNode"), j \in Requests("EndTest"), r \in Requests("Run") :
        /\ ~wire[k].ok /\ wire[k].body = UnknownClientBody /\ wire[k].i = 1
        /\ TestOf(wire[j]) = TestOf(wire[k])
        /\ wire[j].details = <<"client launch failed: ", "unknown client">>
        /\ wire[r].phase = "clients" /\ wire[r].i = 2

(* The names each value of LABU_TEST_PATTERN selects: all of them when it is     *)
(* unset or is no regular expression, and otherwise those it matches somewhere. *)
SelectedNames(p) ==
    CASE p = <<"rpc", "/", ".*">> -> {<<"rpc", "/", "a">>}
      [] p = <<"b">> -> {<<"sys", "/", "b">>}
      [] OTHER -> SdkTestNames

RegisteredTests ==
    {<<"tests", i>> : i \in DOMAIN sdk.suite.Tests} \cup {<<"clients", i>> : i \in DOMAIN sdk.suite.ClientTests}

NameOf(x) == IF x[1] = "tests" THEN sdk.suite.Tests[x[2]].Name ELSE sdk.suite.ClientTests[x[2]].Name

(* C28: no request is issued and no body is run for a registered test whose     *)
(* name the filter does not select; and when RunSuite has returned nil every    *)
(* registered test the filter selects, free-form or client, was created and     *)
(* ended. With no filter every registered test is selected.                     *)
C28_NameFilter ==
    /\ \A k \in TestEvents : NameOf(TestOf(wire[k])) \in SelectedNames(sdk.pattern)
    /\ (sdk.op = "returned" /\ sdk.err = <<>> /\ sdk.suiteID # 0) =>
        \A x \in RegisteredTests :
            NameOf(x) \in SelectedNames(sdk.pattern) =>
                /\ \E k \in Requests("CreateTest") : TestOf(wire[k]) = x /\ wire[k].ok
                /\ \E k \in Requests("EndTest") : TestOf(wire[k]) = x

(* With the filter rpc/.* a suite of the free-form tests rpc/a and sys/b and    *)
(* the client tests rpc/a and sys/b has run: two tests were created and ended.  *)
C28_Witness ==
    /\ sdk.op = "returned" /\ sdk.err = <<>>
    /\ sdk.pattern = <<"rpc", "/", ".*">>
    /\ \E x, y \in RegisteredTests : x[1] = "tests" /\ y[1] = "clients" /\ NameOf(x) # NameOf(y)
    /\ \E x, y \in RegisteredTests : x[1] = "tests" /\ y[1] = "tests" /\ NameOf(x) # NameOf(y)
    /\ Len(sdk.suite.ClientTests) = 2
    /\ Cardinality({k \in Requests("CreateTest") : wire[k].ok}) = 2
    /\ Cardinality(Requests("EndTest")) = 2

(* C29: every file key and every environment key of the caller's spec has the  *)
(* caller's value after the decoration; and when LABU_VECTOR_DIR is unset the   *)
(* decorated spec has the caller's keys and no other.                           *)
C29_CallerValuesKept ==
    sdk.op = "decorated" =>
        /\ \A k \in DOMAIN sdk.spec.Files.m :
            k \in DOMAIN sdk.launchSpec.Files /\ sdk.launchSpec.Files[k] = sdk.spec.Files.m[k]
        /\ \A k \in DOMAIN sdk.spec.Environment.m :
            k \in DOMAIN sdk.launchSpec.Environment
                /\ sdk.launchSpec.Environment[k] = sdk.spec.Environment.m[k]
        /\ sdk.vectorDir = "" =>
            /\ DOMAIN sdk.launchSpec.Files = DOMAIN sdk.spec.Files.m
            /\ DOMAIN sdk.launchSpec.Environment = DOMAIN sdk.spec.Environment.m

(* The caller set files["accounts.json"] and LABU_ACCOUNTS_PATH, the directory  *)
(* holds accounts.json and genesis_state.json, and the decoration added the     *)
(* genesis file and its variable.                                               *)
C29_Witness ==
    /\ sdk.op = "decorated"
    /\ sdk.vectorDir = "/vectors"
    /\ {"accounts.json", "genesis_state.json"} \subseteq sdk.dir
    /\ "accounts.json" \in DOMAIN sdk.spec.Files.m
    /\ "LABU_ACCOUNTS_PATH" \in DOMAIN sdk.spec.Environment.m
    /\ sdk.launchSpec.Files["genesis_state.json"] = PathIn("/vectors", "genesis_state.json")
    /\ "LABU_GENESIS_STATE_PATH" \in DOMAIN sdk.launchSpec.Environment

(* The environment docker.Run was given by a LaunchNode that started its        *)
(* container.                                                                   *)
Started(th) == pc[th].op \in {"LaunchNode:relock", "LaunchNode:register"}

(* C30: the container's environment has LABU_NETWORK as the caller set it, and  *)
(* otherwise the first of config.networks, and "devnet" when there is none;     *)
(* LABU_STATE_DIR as the caller set it and otherwise /state; LABU_FILES_DIR     *)
(* /labu-files; and every other variable of the caller with its value, and no   *)
(* further variable.                                                            *)
C30_LaunchEnvironment ==
    \A th \in Threads :
        Started(th) =>
            LET caller == pc[th].cfg.Environment
                env == pc[th].env
                defaulted == {"LABU_NETWORK", "LABU_STATE_DIR", "LABU_FILES_DIR"}
            IN  /\ DOMAIN env = DOMAIN caller \cup defaulted
                /\ env["LABU_NETWORK"] =
                        IF "LABU_NETWORK" \in DOMAIN caller THEN caller["LABU_NETWORK"]
                        ELSE IF pc[th].cfg.Networks # <<>> THEN Head(pc[th].cfg.Networks)
                        ELSE "devnet"
                /\ env["LABU_STATE_DIR"] =
                        IF "LABU_STATE_DIR" \in DOMAIN caller THEN caller["LABU_STATE_DIR"] ELSE "/state"
                /\ env["LABU_FILES_DIR"] = "/labu-files"
                /\ \A k \in DOMAIN caller \ defaulted : env[k] = caller[k]

(* A container was started for a caller that named two networks and set another *)
(* variable but not LABU_NETWORK: it is told the first network.                 *)
C30_Witness ==
    \E th \in Threads :
        /\ Started(th)
        /\ pc[th].cfg.Networks = <<"n2", "n1">>
        /\ DOMAIN pc[th].cfg.Environment = {"LABU_VERBOSE", "LABU_FILES_DIR"}
        /\ pc[th].env["LABU_NETWORK"] = "n2"
        /\ pc[th].env["LABU_VERBOSE"] = "1"

(* C31: Exec is a pass-through: Client.Exec returns the exit code, stdout and   *)
(* stderr the container runtime produced for the command, also when the command *)
(* exited with a code other than 0.                                             *)
C31_ExecPassThrough ==
    (SdkAt("execReturned") /\ sdk.exec.ran.started) =>
        /\ sdk.exec.ret.code = sdk.exec.ran.code
        /\ sdk.exec.ret.stdout = sdk.exec.ran.stdout
        /\ sdk.exec.ret.stderr = sdk.exec.ran.stderr

NodeInfoAnswers(th) == pc[th].op = "NodeInfo" /\ pc'[th].op = "NodeInfo:return"

LiveTests == {t \in DOMAIN tests : \E s \in DOMAIN suites : t \in suites[s].Tests}

(* C32: NodeInfo never fails and changes no state; for an id registered in a    *)
(* test of a live suite it returns that node's id and client name, for any      *)
(* other id the stub {id}.                                                      *)
C32_NodeInfo ==
    [][\A th \in Threads :
        NodeInfoAnswers(th) =>
            LET id == pc'[th].cid
                owners == {t \in LiveTests : id \in DOMAIN tests[t].Nodes}
            IN  /\ pc'[th].err = ""
                /\ dataVars' = dataVars
                /\ envVars' = envVars
                /\ IF owners = {}
                   THEN pc'[th].info = [id |-> id]
                   ELSE \E t \in owners :
                           pc'[th].info = [id |-> id, name |-> tests[t].Nodes[id].ClientName]]_vars

(* NodeInfo answered with the stub for the node of a suite that was ended,      *)
(* while another id was never launched.                                         *)
C32_Witness ==
    \E th \in Threads, t \in DOMAIN tests :
        /\ pc[th].op = "NodeInfo:return"
        /\ pc[th].cid \in DOMAIN tests[t].Nodes
        /\ pc[th].info = [id |-> pc[th].cid]
        /\ suites = EmptyMap
        /\ \A o \in Threads \ {th} : pc[o].op = "idle"

OwnersOf(id) == {t \in DOMAIN tests : id \in DOMAIN tests[t].Nodes}

LaunchNodeRegisters(th) == pc[th].op = "LaunchNode:register" /\ pc'[th].op # "LaunchNode:register"

(* C33: with a fresh container id for every started container, a container id  *)
(* is a key of the node map of at most one test, and a successful LaunchNode    *)
(* adds exactly one node, the started container, to the test it was called on.  *)
C33_NodeInOneTest ==
    /\ [](\A id \in ContainerIds : Cardinality(OwnersOf(id)) <= 1)
    /\ [][\A th \in Threads :
            LaunchNodeRegisters(th) =>
                /\ pc[th].cid \notin UNION {DOMAIN tests[t].Nodes : t \in DOMAIN tests}
                /\ \A t \in DOMAIN tests :
                     DOMAIN tests'[t].Nodes =
                        DOMAIN tests[t].Nodes \cup (IF t = pc[th].t THEN {pc[th].cid} ELSE {})]_vars

(* Two tests exist and both nodes were launched in one of them. *)
C33_Witness ==
    \E t \in DOMAIN tests, u \in DOMAIN tests :
        /\ t # u
        /\ DOMAIN tests[t].Nodes = ContainerIds
        /\ DOMAIN tests[u].Nodes = {}
        /\ Cardinality(ContainerIds) > 1

(* The positions of a goroutine inside a section guarded by c.mu. *)
GuardedPositions == {"CreateSuite", "CreateTest", "EndTest", "LaunchNode", "LaunchNode:register"}

(* C34 as claimed: at most one request is inside a guarded section, a request   *)
(* that has returned does not hold the mutex, and every invoked operation       *)
(* eventually returns.                                                          *)
C34_MutexAndProgress ==
    /\ [](\A th \in Threads, o \in Threads :
            (pc[th].op \in GuardedPositions /\ pc[o].op \in GuardedPositions) => (th = o /\ mu = th))
    /\ [](\A th \in Threads : pc[th].op = "idle" => mu # th)
    /\ \A th \in Threads : (pc[th].op # "idle") ~> (pc[th].op = "idle")

(* C35 as claimed: once an EndTest of test t has returned success, no step      *)
(* changes the entry of t in the test cases of its suite's result.              *)
C35_FinalizedVerdictFinal ==
    [][\A t \in endTestDone : \A s \in DOMAIN results :
        Itoa(t) \in DOMAIN results[s].TestCases =>
            /\ s \in DOMAIN results'
            /\ Itoa(t) \in DOMAIN results'[s].TestCases
            /\ results'[s].TestCases[Itoa(t)] = results[s].TestCases[Itoa(t)]]_vars

EndSuiteActs(th) == pc[th].op = "EndSuite" /\ pc'[th].op # "EndSuite"

(* The tests that were not finalized when their suite was ended. *)
Orphans ==
    {t \in DOMAIN tests : t \notin LiveTests /\ \A s \in SuiteIds : <<s, t>> \notin endTestOk}

HasResultEntry(t) == \E s \in DOMAIN results : Itoa(t) \in DOMAIN results[s].TestCases

(* A step of EndTest or LaunchNode that ends the validation under the mutex. *)
Validates(th) == pc[th].op \in {"EndTest", "LaunchNode"} /\ pc'[th].op # pc[th].op

(* A RemoveNode request: the adapter's Remove is called and the caller is back. *)
RemoveNodeActs == pc' = pc /\ removeCalls' # removeCalls

(* C36 as claimed: the containers of a test that was not finalized when its     *)
(* suite was ended are never removed by the Controller.                         *)
C36_OrphanContainersNeverRemoved ==
    [][\A t \in Orphans : \A id \in DOMAIN tests[t].Nodes :
        tests[t].Nodes[id].ContainerID \in containers =>
            tests[t].Nodes[id].ContainerID \in containers']_vars

(* C36, amended: EndSuite calls no adapter operation and writes no result; once *)
(* no suite is left every EndTest and LaunchNode fails in its validation and    *)
(* changes nothing; a test not finalized when its suite was ended never gets a  *)
(* result entry, and Remove is called for its containers only by a RemoveNode   *)
(* request.                                                                     *)
C36_EndSuiteNoTeardown ==
    /\ [][\A th \in Threads :
            EndSuiteActs(th) =>
                (~AdapterActs /\ results' = results /\ tests' = tests /\ disk' = disk)]_vars
    /\ [][\A th \in Threads :
            (Validates(th) /\ suites = EmptyMap) =>
                (pc'[th].op = "idle" /\ dataVars' = dataVars /\ envVars' = envVars)]_vars
    /\ [](\A t \in Orphans : ~HasResultEntry(t))
    /\ [][\A t \in Orphans : \A id \in DOMAIN tests[t].Nodes :
            removeCalls'[tests[t].Nodes[id].ContainerID] # removeCalls[tests[t].Nodes[id].ContainerID]
                => RemoveNodeActs]_vars

(* The suite was ended with an unfinalized test whose node is still running,    *)
(* and an EndTest called after that is in its validation.                       *)
C36_Witness ==
    \E t \in Orphans, th \in Threads :
        /\ suites = EmptyMap
        /\ DOMAIN tests[t].Nodes # {}
        /\ \A id \in DOMAIN tests[t].Nodes : tests[t].Nodes[id].ContainerID \in containers
        /\ pc[th].op = "EndTest"
        /\ mu = th

(* C37: RemoveNode changes no state of the Controller, it only has the adapter  *)
(* remove the container; NodeInfo for a node it was called on still returns the *)
(* node's record, and an EndTest of the node's test still lists the node in     *)
(* clientInfo.                                                                  *)
C37_RemoveNodeKeepsRecord ==
    /\ [][RemoveNodeActs =>
            /\ ctrlVars' = ctrlVars
            /\ <<nextContainer, dockerNets, now, disk, fs>>' = <<nextContainer, dockerNets, now, disk, fs>>
            /\ containers' \subseteq containers
            /\ Cardinality(containers \ containers') <= 1]_vars
    /\ [][\A th \in Threads :
            (NodeInfoAnswers(th) /\ removeCalls[pc'[th].cid] > 0 /\ OwnersOf(pc'[th].cid) \cap LiveTests # {}) =>
                \E t \in OwnersOf(pc'[th].cid) :
                    pc'[th].info = [id |-> pc'[th].cid, name |-> tests[t].Nodes[pc'[th].cid].ClientName]]_vars
    /\ [][\A th \in Threads :
            EndTestCommits(th) =>
                \A id \in DOMAIN tests[pc'[th].t].Nodes :
                    removeCalls[id] > 0 =>
                        /\ id \in DOMAIN results'[pc'[th].s].TestCases[Itoa(pc'[th].t)].ClientInfo
                        /\ results'[pc'[th].s].TestCases[Itoa(pc'[th].t)].ClientInfo[id].Name
                              = tests[pc'[th].t].Nodes[id].ClientName]_vars

(* RemoveNode removed the container of a node and NodeInfo then answered with   *)
(* the node's record, before any EndTest.                                       *)
C37_Witness ==
    \E th \in Threads, t \in LiveTests :
        /\ pc[th].op = "NodeInfo:return"
        /\ pc[th].cid \in DOMAIN tests[t].Nodes
        /\ pc[th].cid \notin containers
        /\ removeCalls[pc[th].cid] > 0
        /\ pc[th].info = [id |-> pc[th].cid, name |-> tests[t].Nodes[pc[th].cid].ClientName]
        /\ endTestOk = {}

CreationInProgress(n) == \E th \in Threads : pc[th].op = "CreateNetwork:adapter" /\ pc[th].n = n

(* C38 as claimed: a name is in the active set only if the adapter's network    *)
(* exists or its creation is in progress, and a CreateNetwork(n) that returns   *)
(* success at once, n being active, finds the adapter's network created.        *)
C38_ActiveSetAgreesWithAdapter ==
    /\ [](\A n \in networks : n \in dockerNets \/ CreationInProgress(n))
    /\ [][\A th \in Threads :
            (pc[th].op = "CreateNetwork" /\ pc'[th].op = "idle") =>
                \E n \in networks \cap dockerNets : netCalls' = Bump(netCalls, n)]_vars

(* What a container sees at /labu-files: the directory it was started with. *)
Mounted(cid) == DirOf(fs.dirs, fs.mounts[cid].dir)

(* C39 as claimed: the directory mounted into a node holds exactly the files    *)
(* uploaded in the LaunchNode request that started the node, whatever other     *)
(* nodes are launched in the same test.                                         *)
C39_NodeFileIsolation ==
    \A cid \in DOMAIN fs.mounts : Mounted(cid) = fs.mounts[cid].files

(* The failed requests of the trace that are bookkeeping: createSuite,          *)
(* createTest, and the endTest that follows a test body.                        *)
BookkeepingFailures ==
    {k \in DOMAIN wire :
        /\ ~wire[k].ok
        /\ \/ wire[k].kind \in {"CreateSuite", "CreateTest"}
           \/ wire[k].kind = "EndTest" /\ WasRun(wire[k])}

IgnoredFailures == {k \in Requests("EndTest") : ~wire[k].ok /\ ~WasRun(wire[k])}

(* C40: after a failed createTest, or a failed endTest that follows a test      *)
(* body, the only further request is the deletion of the suite, and RunSuite    *)
(* returns the error of the failed request; after a failed createSuite there is *)
(* no further request; a failed endTest after a failed launch is ignored: the   *)
(* loop goes on with the next test, and without a bookkeeping failure RunSuite  *)
(* returns nil with every selected test created.                                *)
C40_StopsAtFirstFailure ==
    /\ [](\A k \in BookkeepingFailures :
            /\ sdk.err = wire[k].err
            /\ sdk.err # <<>>
            /\ IF wire[k].kind = "CreateSuite"
               THEN Len(wire) = k /\ sdk.op = "returned"
               ELSE /\ sdk.op \in {"endSuite", "returned"}
                    /\ sdk.op = "endSuite" => Len(wire) = k
                    /\ sdk.op = "returned" => (Len(wire) = k + 1 /\ wire[k + 1].kind = "EndSuite"))
    /\ []((sdk.op = "returned" /\ BookkeepingFailures = {}) =>
            /\ sdk.err = <<>>
            /\ \A x \in RegisteredTests :
                 NameOf(x) \in SelectedNames(sdk.pattern) =>
                    \E k \in Requests("CreateTest") : TestOf(wire[k]) = x /\ wire[k].ok)
    /\ [][(sdk.op = "launchFailed" /\ Len(wire') > Len(wire)) =>
            (sdk'.op = "loop" /\ sdk'.i = sdk.i + 1 /\ sdk'.err = sdk.err)]_vars

(* A launch failed and the endTest after it failed too; the next test was       *)
(* taken up, its createTest failed, the suite was deleted and RunSuite returned *)
(* that error.                                                                  *)
C40_Witness ==
    \E j \in IgnoredFailures, k \in BookkeepingFailures :
        /\ j < k
        /\ wire[k].kind = "CreateTest"
        /\ sdk.op = "returned"
        /\ sdk.err = wire[k].err
        /\ wire[Len(wire)].kind = "EndSuite"

(* ======================================================================== *)
(* Specifications                                                           *)
(* ======================================================================== *)
(* Suites, tests and nodes. *)
Next ==
    \E th \in Threads :
        \/ CreateSuiteLock(th)
        \/ CreateSuite(th)
        \/ EndSuiteLock(th)
        \/ EndSuite(th)
        \/ CreateTestLock(th)
        \/ CreateTest(th)
        \/ EndTestLock(th)
        \/ EndTest(th)
        \/ EndTestRemove(th)
        \/ EndTestReturn(th)
        \/ LaunchNodeLock(th)
        \/ LaunchNode(th)
        \/ LaunchNodeBuild(th)
        \/ LaunchNodeRun(th)
        \/ LaunchNodeRelock(th)
        \/ LaunchNodeRegister(th)
        \/ RemoveNode(th)

Spec == Init /\ [][Next]_vars

(* Suites and tests with the result accumulator, its decoration and its flush. *)
ResultNext ==
    \E th \in Threads :
        \/ CreateSuiteLock(th)
        \/ CreateSuite(th)
        \/ EndSuiteLock(th)
        \/ EndSuite(th)
        \/ (testSeq < MaxFlushedTests /\ CreateTestLock(th))
        \/ CreateTest(th)
        \/ EndTestLock(th)
        \/ EndTest(th)
        \/ EndTestReturn(th)
        \/ SaveResultsLock(th)
        \/ SaveResults(th)
        \/ SetSimLogLock(th)
        \/ SetSimLog(th)
        \/ SetClientVersionsLock(th)
        \/ SetClientVersions(th)

ResultSpec == Init /\ [][ResultNext]_vars

(* The active-network set and the adapter's networks. *)
NetNext ==
    \E th \in Threads :
        \/ CreateNetworkLock(th)
        \/ CreateNetwork(th)
        \/ CreateNetworkAdapter(th)
        \/ RemoveNetworkLock(th)
        \/ RemoveNetwork(th)
        \/ RemoveNetworkAdapter(th)

NetSpec == Init /\ [][NetNext]_vars

(* One run of the driver; the simulator's suite and test requests arrive while  *)
(* its container runs.                                                          *)
RunNext ==
    \/ RunCreateNetwork
    \/ RunSetImageOverrides
    \/ RunListen
    \/ RunBuildSimulator
    \/ RunBuildClients
    \/ RunSetClientVersions
    \/ RunStartSimulator
    \/ RunWait
    \/ RunLogs
    \/ RunWriteSimLog
    \/ RunSetSimLog
    \/ RunRemove
    \/ RunRemoveNetwork
    \/ RunShutdown
    \/ \E th \in Threads :
        \/ (Serving /\ suiteSeq < MaxServedSuites /\ CreateSuiteLock(th))
        \/ CreateSuite(th)
        \/ (Serving /\ EndSuiteLock(th))
        \/ EndSuite(th)
        \/ (Serving /\ testSeq < MaxFlushedTests /\ CreateTestLock(th))
        \/ CreateTest(th)
        \/ (Serving /\ EndTestLock(th))
        \/ EndTest(th)
        \/ EndTestReturn(th)
        \/ FlushLock(th)
        \/ SaveResults(th)
        \/ Respond(th)

RunSpec == Init /\ [][RunNext]_vars

(* Every method of the Controller that calls the adapter, on one suite with one *)
(* test.                                                                        *)
AdapterNext ==
    \E th \in Threads :
        \/ (suiteSeq < MaxServedSuites /\ CreateSuiteLock(th))
        \/ CreateSuite(th)
        \/ (testSeq < MaxFlushedTests /\ CreateTestLock(th))
        \/ CreateTest(th)
        \/ EndTestLock(th)
        \/ EndTest(th)
        \/ EndTestRemove(th)
        \/ EndTestReturn(th)
        \/ LaunchNodeLock(th)
        \/ LaunchNode(th)
        \/ LaunchNodeBuild(th)
        \/ LaunchNodeRun(th)
        \/ LaunchNodeRelock(th)
        \/ LaunchNodeRegister(th)
        \/ RemoveNode(th)
        \/ CreateNetworkLock(th)
        \/ CreateNetwork(th)
        \/ CreateNetworkAdapter(th)
        \/ RemoveNetworkLock(th)
        \/ RemoveNetwork(th)
        \/ RemoveNetworkAdapter(th)

AdapterSpec == Init /\ [][AdapterNext]_vars

(* The control server's suite and test endpoints with the flush after EndTest,  *)
(* while the simulator runs.                                                    *)
FlushNext ==
    \/ RunCreateNetwork
    \/ RunSetImageOverrides
    \/ RunListen
    \/ RunBuildSimulator
    \/ RunBuildClients
    \/ RunSetClientVersions
    \/ RunStartSimulator
    \/ \E th \in Threads :
        \/ (Serving /\ CreateSuiteLock(th))
        \/ CreateSuite(th)
        \/ (Serving /\ EndSuiteLock(th))
        \/ EndSuite(th)
        \/ (Serving /\ testSeq < MaxFlushedTests /\ CreateTestLock(th))
        \/ CreateTest(th)
        \/ (Serving /\ EndTestLock(th))
        \/ EndTest(th)
        \/ EndTestReturn(th)
        \/ FlushLock(th)
        \/ SaveResults(th)
        \/ Respond(th)

FlushSpec == Init /\ [][FlushNext]_vars

(* The control server's suite, test and node endpoints during a run. *)
ApiNext ==
    \/ RunCreateNetwork
    \/ RunSetImageOverrides
    \/ RunListen
    \/ RunBuildSimulator
    \/ RunBuildClients
    \/ RunSetClientVersions
    \/ RunStartSimulator
    \/ \E th \in Threads :
        \/ (Serving /\ suiteSeq < MaxServedSuites /\ CreateSuiteLock(th))
        \/ CreateSuite(th)
        \/ (Serving /\ EndSuiteLock(th))
        \/ EndSuite(th)
        \/ (Serving /\ testSeq < MaxFlushedTests /\ CreateTestLock(th))
        \/ CreateTest(th)
        \/ (Serving /\ EndTestLock(th))
        \/ EndTest(th)
        \/ EndTestRemove(th)
        \/ EndTestReturn(th)
        \/ FlushLock(th)
        \/ SaveResults(th)
        \/ (Serving /\ LaunchNodeLock(th))
        \/ LaunchNode(th)
        \/ LaunchNodeBuild(th)
        \/ LaunchNodeRun(th)
        \/ LaunchNodeRelock(th)
        \/ LaunchNodeRegister(th)
        \/ Respond(th)

ApiSpec == Init /\ [][ApiNext]_vars

(* One simulator process: New, then RunSuite on one suite, each request         *)
(* answered by the server or failing.                                           *)
SdkNext ==
    \/ SdkNew
    \/ RunSuite
    \/ SdkCreateSuite
    \/ SdkLoop
    \/ SdkCreateTest
    \/ SdkLaunchClient
    \/ SdkLaunchFailed
    \/ SdkRun
    \/ SdkEndTest
    \/ SdkEndSuite

SdkSpec == Init /\ [][SdkNext]_vars

(* launchClient decorating one launch spec. *)
VectorNext == SdkApplyDefaults

VectorSpec == Init /\ [][VectorNext]_vars

(* LaunchNode on one test, with the configs of callers. *)
EnvNext ==
    \E th \in Threads :
        \/ (suiteSeq < MaxServedSuites /\ CreateSuiteLock(th))
        \/ CreateSuite(th)
        \/ (testSeq < MaxFlushedTests /\ CreateTestLock(th))
        \/ CreateTest(th)
        \/ LaunchNodeLock(th)
        \/ LaunchNodeWith(th, LaunchConfigs)
        \/ LaunchNodeBuild(th)
        \/ LaunchNodeRun(th)
        \/ LaunchNodeRelock(th)
        \/ LaunchNodeRegister(th)

EnvSpec == Init /\ [][EnvNext]_vars

(* One Exec of a simulator on a launched client. *)
ExecNext ==
    \/ SdkExec
    \/ HandleExec
    \/ SdkExecReturn

ExecSpec == Init /\ [][ExecNext]_vars

(* One suite with one test and its node: launch, lookup, removal, and the end  *)
(* of the test and of the suite.                                                *)
InfoNext ==
    \E th \in Threads :
        \/ (suiteSeq < MaxServedSuites /\ CreateSuiteLock(th))
        \/ CreateSuite(th)
        \/ EndSuiteLock(th)
        \/ EndSuite(th)
        \/ (testSeq < MaxFlushedTests /\ CreateTestLock(th))
        \/ CreateTest(th)
        \/ EndTestLock(th)
        \/ EndTest(th)
        \/ EndTestRemove(th)
        \/ EndTestReturn(th)
        \/ LaunchNodeLock(th)
        \/ LaunchNode(th)
        \/ LaunchNodeBuild(th)
        \/ LaunchNodeRun(th)
        \/ LaunchNodeRelock(th)
        \/ LaunchNodeRegister(th)
        \/ RemoveNode(th)
        \/ NodeInfoLock(th)
        \/ NodeInfo(th)
        \/ NodeInfoReturn(th)

InfoSpec == Init /\ [][InfoNext]_vars

(* The tests of one suite and the nodes launched in them. *)
NodeNext ==
    \E th \in Threads :
        \/ (suiteSeq < MaxServedSuites /\ CreateSuiteLock(th))
        \/ CreateSuite(th)
        \/ CreateTestLock(th)
        \/ CreateTest(th)
        \/ (nextContainer < MaxNodes /\ Lock(th, "idle", "LaunchNode"))
        \/ LaunchNode(th)
        \/ LaunchNodeBuild(th)
        \/ LaunchNodeRunUpTo(th, MaxNodes)
        \/ LaunchNodeRelock(th)
        \/ LaunchNodeRegister(th)

NodeSpec == Init /\ [][NodeNext]_vars

(* Requests on one test, run by goroutines that are scheduled fairly and whose  *)
(* adapter calls return: a goroutine inside an operation, also one waiting for  *)
(* the mutex, which sync.Mutex hands over to a starving waiter, is not passed   *)
(* over forever.                                                                *)
LockStep(th) ==
    \/ (suiteSeq < MaxServedSuites /\ CreateSuiteLock(th))
    \/ CreateSuite(th)
    \/ (testSeq < MaxFlushedTests /\ CreateTestLock(th))
    \/ CreateTest(th)
    \/ EndTestLock(th)
    \/ EndTest(th)
    \/ EndTestRemove(th)
    \/ EndTestReturn(th)
    \/ (nextContainer < MaxNodes /\ Lock(th, "idle", "LaunchNode"))
    \/ LaunchNode(th)
    \/ LaunchNodeBuild(th)
    \/ LaunchNodeRunUpTo(th, MaxNodes)
    \/ LaunchNodeRelock(th)
    \/ LaunchNodeRegister(th)

LockNext == \E th \in Threads : LockStep(th)

Progress(th) == pc[th].op # "idle" /\ LockStep(th)

LockSpec == Init /\ [][LockNext]_vars /\ \A th \in Threads : SF_vars(Progress(th))

(* The nodes of one test, launched with files. *)
FileNext ==
    \E th \in Threads :
        \/ (suiteSeq < MaxServedSuites /\ CreateSuiteLock(th))
        \/ CreateSuite(th)
        \/ (testSeq < MaxFlushedTests /\ CreateTestLock(th))
        \/ CreateTest(th)
        \/ (nextContainer < MaxNodes /\ Lock(th, "idle", "LaunchNode"))
        \/ LaunchNodeWith(th, FileConfigs)
        \/ LaunchNodeBuild(th)
        \/ LaunchNodeRunUpTo(th, MaxNodes)
        \/ LaunchNodeRelock(th)
        \/ LaunchNodeRegister(th)

FileSpec == Init /\ [][FileNext]_vars
====
